---- MODULE Spec2Model ----
(***************************************************************************)
(* Verification model of the WordRef citation add-in: the citation marker  *)
(* scan, the first-appearance order, merge / unmerge of markers and the    *)
(* refresh pipeline (taskpane.ts, lib/storage, lib/cite).                  *)
(*                                                                         *)
(* Text is a sequence of string tokens: "[3]" is <<"[", "3", "]">>.  The   *)
(* document is the sequence of its citation content controls in reading    *)
(* order; a control is [kind, ids, text] where kind stands for the pair    *)
(* (title, tag prefix) that the code always writes together.               *)
(***************************************************************************)
EXTENDS Integers, Sequences, FiniteSets, TLC

VARIABLES
    doc,        \* citation content controls of the document, in reading order
    order,      \* stored CitedOrder (ORDER_KEY)
    lib,        \* identifiers that have a Library entry (LIB_KEY)
    style,      \* value of the style select, lower-cased
    heading,    \* a "References" paragraph exists
    bibcc,      \* the "wordref-bibliography" content control exists
    bib,        \* lines of the bibliography content control
    tasks,      \* running handlers: position and locals of each
    slots,      \* task slots in use: how many handlers may run at once
    ops,        \* handler starts left
    edits,      \* user edits left
    everCited,  \* identifiers that some marker of the document has carried
    midEdit,    \* a user edit happened while a refresh was running
    styleTimer, \* the debounce timer of onStyleChanged is armed
    ev,         \* what the last step did (observation of that step only)
    lastMerge,  \* the identifiers and the style of the last merge that made a group
    scanIn,     \* input of the harness of a pass over the document: the controls in
                \* host enumeration order (scan), the content in reading order (merge pass)
    scanOut,    \* output of that harness
    compIn,     \* input of the compressor harness: a set of indices
    compOut,    \* output of the compressor harness
    deb,        \* the debounce of onStyleChanged with its clock: pending timeouts
                \* (ticks left), ticks since the last change event, and the
                \* events and refreshes of the current burst
    inFlight    \* the single-flight flags: op is opInFlight, style is
                \* styleChangeInFlight; failed: the guarded refreshes that a host
                \* error has ended

vars == <<doc, order, lib, style, heading, bibcc, bib, tasks, slots, ops, edits,
          everCited, midEdit, styleTimer, ev, lastMerge, scanIn, scanOut,
          compIn, compOut, deb, inFlight>>

---------------------------------------------------------------------------
(* Bounds *)

MaxMarkers == 3
MaxOps == 2
MaxEdits == 1
MaxInit == 1
MaxConcOps == 2
MaxScan == 3
MaxBib == 3
MaxIdx == 6
MaxCalls == 4
MaxStyleEvents == 3
MaxHostOps == 3
MaxItems == 4
MaxRefreshes == 3

\* the 150 ms window of onStyleChanged, in clock ticks
DebounceTicks == 2

Ids == {"A", "B"}
Tasks == {"t1", "t2"}
Styles == {"ieee", "apa"}

\* the styles of the style select, and the entries of the bibliography harness
AllStyles == {"apa", "mla", "harvard", "ieee", "numeric", "vancouver", "acs"}
BibIds == {"A", "B", "C", "D", "E"}

\* what a caller can pass as style: the identifiers, some of them in other
\* letter case, no style ("") and an identifier that is none of them
StyleInputs == AllStyles \cup {"", "APA", "Harvard", "IEEE", "Acs", "chicago"}

---------------------------------------------------------------------------
(* Sequences *)

Range(s) == {s[i] : i \in 1..Len(s)}

Contains(s, x) == \E i \in 1..Len(s) : s[i] = x

\* Array.prototype.indexOf, 0-based, -1 when absent
IndexOf(s, x) ==
    IF Contains(s, x) THEN (CHOOSE i \in 1..Len(s) : s[i] = x /\ \A j \in 1..(i-1) : s[j] # x) - 1
    ELSE -1

RECURSIVE Flatten(_)
Flatten(ss) == IF ss = <<>> THEN <<>> ELSE Head(ss) \o Flatten(Tail(ss))

RemoveAt(s, i) == SubSeq(s, 1, i-1) \o SubSeq(s, i+1, Len(s))

InsertAt(s, i, x) == SubSeq(s, 1, i-1) \o <<x>> \o SubSeq(s, i, Len(s))

Max2(a, b) == IF a >= b THEN a ELSE b

\* the ascending list of a set of numbers
RECURSIVE Ascending(_)
Ascending(S) ==
    IF S = {} THEN <<>>
    ELSE LET m == CHOOSE x \in S : \A y \in S : x <= y IN <<m>> \o Ascending(S \ {m})

Reverse(s) == [i \in 1..Len(s) |-> s[Len(s) + 1 - i]]

\* Array.prototype.join over token lists
RECURSIVE JoinWith(_, _)
JoinWith(parts, sep) ==
    IF parts = <<>> THEN <<>>
    ELSE IF Len(parts) = 1 THEN parts[1]
    ELSE parts[1] \o <<sep>> \o JoinWith(Tail(parts), sep)

\* sequences over S of length lo..hi
SeqsOf(S, lo, hi) == UNION {[1..n -> S] : n \in lo..hi}

---------------------------------------------------------------------------
(* Library entries *)

\* BibEntry records; a missing field is the empty string / empty token list
EntryA == [id |-> "A", author |-> <<"Zed", ",", " Q.">>, editor |-> <<>>, year |-> "2001",
           title |-> "Ta", journal |-> "J", volume |-> "7", number |-> "", pages |-> "1-9", doi |-> ""]
EntryB == [id |-> "B", author |-> <<"Abe", ",", " R.", " and ", "Moss", ",", " S.">>, editor |-> <<>>,
           year |-> "", title |-> "Tb", journal |-> "", volume |-> "", number |-> "", pages |-> "", doi |-> ""]

\* an entry with an editor and no author, and one with neither
EntryC == [id |-> "C", author |-> <<>>, editor |-> <<"Moss", ",", " S.">>, year |-> "1999",
           title |-> "Tc", journal |-> "", volume |-> "", number |-> "", pages |-> "", doi |-> ""]
EntryD == [id |-> "D", author |-> <<>>, editor |-> <<>>, year |-> "2010",
           title |-> "Td", journal |-> "", volume |-> "", number |-> "", pages |-> "", doi |-> ""]

\* an entry whose author field has " and " before its first comma
EntryE == [id |-> "E", author |-> <<"Lund", " ", " and ", "Abe", ",", " R.">>, editor |-> <<>>, year |-> "2005",
           title |-> "Te", journal |-> "", volume |-> "", number |-> "", pages |-> "", doi |-> ""]

Entry(id) ==
    IF id = "A" THEN EntryA ELSE IF id = "C" THEN EntryC ELSE IF id = "D" THEN EntryD
    ELSE IF id = "E" THEN EntryE ELSE EntryB

\* position of an author field under String.prototype.localeCompare
AuthorRank(a) ==
    IF a = <<>> THEN 0 ELSE IF a[1] = "Abe" THEN 1 ELSE IF a[1] = "Lund" THEN 2 ELSE IF a[1] = "Moss" THEN 3 ELSE 4

---------------------------------------------------------------------------
(* lib/cite: formatting *)

\* String.prototype.toLowerCase on the style strings and the words of a heading
toLowerCase(str) ==
    IF str = "APA" THEN "apa" ELSE IF str = "Harvard" THEN "harvard"
    ELSE IF str = "IEEE" THEN "ieee" ELSE IF str = "Acs" THEN "acs"
    ELSE IF str \in {"References", "REFERENCES"} THEN "references"
    ELSE IF str = "Bibliography" THEN "bibliography"
    ELSE IF str = "Selected " THEN "selected "
    ELSE IF str = "Intro" THEN "intro" ELSE str

normalizeStyle(sty) == toLowerCase(IF sty = "" THEN "apa" ELSE sty)

isNumericStyle(sty) == normalizeStyle(sty) \in {"ieee", "numeric", "vancouver", "acs"}

\* str.split(sep)[0]
RECURSIVE SplitFirst(_, _)
SplitFirst(a, sep) ==
    IF a = <<>> \/ Head(a) = sep THEN <<>> ELSE <<Head(a)>> \o SplitFirst(Tail(a), sep)

\* String.prototype.trim: the token " " is a space
RECURSIVE Trim(_)
Trim(a) ==
    IF a # <<>> /\ Head(a) = " " THEN Trim(Tail(a))
    ELSE IF a # <<>> /\ a[Len(a)] = " " THEN Trim(SubSeq(a, 1, Len(a) - 1))
    ELSE a

\* the first-author surname cut at the first comma only
firstAuthorSurname_comma(e) ==
    LET a == IF e.author # <<>> THEN e.author ELSE IF e.editor # <<>> THEN e.editor ELSE <<"Anon">>
    IN Trim(SplitFirst(a, ","))

firstAuthorSurname(e) ==
    LET a == IF e.author # <<>> THEN e.author ELSE IF e.editor # <<>> THEN e.editor ELSE <<"Anon">>
    IN Trim(SplitFirst(SplitFirst(a, " and "), ","))

formatInText(e, sty, index) ==
    IF isNumericStyle(sty) THEN <<"[", ToString(index), "]">>
    ELSE <<"(">> \o firstAuthorSurname(e) \o <<", ", IF e.year # "" THEN e.year ELSE "n.d.", ")">>

\* drop the empty tokens of a line
Squeeze(t) == SelectSeq(t, LAMBDA x : x # "")

\* "LDQUO" and "RDQUO" are the curly quotes U+201C and U+201D
formatBibliographyEntry(e, sty, index) ==
    LET s == normalizeStyle(sty)
        a == IF e.author # <<>> THEN e.author ELSE IF e.editor # <<>> THEN e.editor ELSE <<"Anon">>
        y == IF e.year # "" THEN e.year ELSE "n.d."
        t == e.title
        j == e.journal
        v == e.volume
        n == IF e.number # "" THEN <<"(", e.number, ")">> ELSE <<>>
        p == IF e.pages # "" THEN <<", ", e.pages>> ELSE <<>>
        doi == IF e.doi # "" THEN <<" https://doi.org/", e.doi>> ELSE <<>>
        cv == IF v # "" THEN <<", ", v>> ELSE <<>>
        sn == IF n # <<>> THEN <<" ">> \o n ELSE <<>>
    IN Squeeze(
       CASE s \in {"ieee", "numeric"} ->
              <<"[", ToString(index), "]", " ">> \o a \o <<". ", "LDQUO", t, ",", "RDQUO", " ", j, " ", v>>
                 \o n \o p
                 \o <<", ", y, ".">> \o doi
         [] s = "vancouver" ->
              <<ToString(index), ".", " ">> \o a \o <<". ", t, ". ", j, " ", y>>
                 \o (IF v # "" THEN <<";", v>> ELSE <<>>)
                 \o (IF n # <<>> THEN <<"(">> \o n \o <<")">> ELSE <<>>)
                 \o (IF p # <<>> THEN <<":", "-", e.pages>> ELSE <<>>) \o <<".">>
         [] s = "harvard" ->
              a \o <<", ", y, ". ", t, ". ", j>> \o cv \o sn \o p \o <<".">>
         [] s = "acs" ->
              a \o <<". ", t, ". ", j, " ", y>> \o cv \o sn \o p \o <<".">>
         [] OTHER ->
              a \o <<" (", y, "). ", t, ". ", j>> \o cv \o sn \o p \o <<".">> \o doi)

---------------------------------------------------------------------------
(* taskpane.ts: order and numeric compression *)

RECURSIVE uniqueFrom(_, _)
uniqueFrom(ids, seen) ==
    IF ids = <<>> THEN <<>>
    ELSE IF Head(ids) \in seen THEN uniqueFrom(Tail(ids), seen)
    ELSE <<Head(ids)>> \o uniqueFrom(Tail(ids), seen \cup {Head(ids)})

\* the stable unique that keeps the last occurrence of every identifier
uniqueInOrder_last(ids) == Reverse(uniqueFrom(Reverse(ids), {}))

uniqueInOrder(ids) == uniqueFrom(ids, {})

\* Array.prototype.sort((a, b) => a - b)
RECURSIVE SortNums(_)
SortNums(s) ==
    IF s = <<>> THEN <<>>
    ELSE LET m == CHOOSE i \in 1..Len(s) : \A k \in 1..Len(s) : s[i] <= s[k]
         IN <<s[m]>> \o SortNums(RemoveAt(s, m))

\* the en dash U+2013 that compressNumericList writes; "-" is the ASCII hyphen
EnDash == "--"

RunText(start, prev) ==
    IF start = prev THEN <<ToString(start)>> ELSE <<ToString(start), EnDash, ToString(prev)>>

\* the loop of compressNumericList from element i on, with the open run start..prev
RECURSIVE compressFrom(_, _, _, _)
compressFrom(nums, i, start, prev) ==
    IF i > Len(nums) THEN RunText(start, prev)
    ELSE IF nums[i] = prev + 1 THEN compressFrom(nums, i + 1, start, nums[i])
    ELSE RunText(start, prev) \o <<",">> \o compressFrom(nums, i + 1, nums[i], nums[i])

compressNumericList(nums) ==
    IF nums = <<>> THEN <<>> ELSE compressFrom(nums, 2, nums[1], nums[1])

---------------------------------------------------------------------------
(* lib/cite: grouping for numeric styles *)

\* a token of decimal digits, and parseInt of it
IsDigits(tok) == \E n \in 0..(MaxIdx + 1) : ToString(n) = tok

ParseInt(tok) == CHOOSE n \in 0..(MaxIdx + 1) : ToString(n) = tok

\* text.match(/\[(.*?)\]/g) with the brackets taken off each block
RECURSIVE BracketBlocks(_)
BracketBlocks(text) ==
    IF ~Contains(text, "[") THEN <<>>
    ELSE LET i == IndexOf(text, "[") + 1
             after == SubSeq(text, i + 1, Len(text))
         IN IF ~Contains(after, "]") THEN <<>>
            ELSE LET j == IndexOf(after, "]") + 1
                 IN <<SubSeq(after, 1, j - 1)>> \o BracketBlocks(SubSeq(after, j + 1, Len(after)))

\* s.split(",").map(t => t.trim()).filter(Boolean); the token ", " is a comma
\* followed by a space
RECURSIVE SplitParts(_, _)
SplitParts(block, part) ==
    IF block = <<>> THEN (IF part = <<>> THEN <<>> ELSE <<part>>)
    ELSE IF Head(block) \in {",", ", "}
         THEN (IF part = <<>> THEN <<>> ELSE <<part>>) \o SplitParts(Tail(block), <<>>)
         ELSE SplitParts(Tail(block), IF Head(block) = " " THEN part ELSE Append(part, Head(block)))

\* one part: digits, or digits "-" digits (the ASCII hyphen), or nothing
ParsePart(part) ==
    IF Len(part) = 1 /\ IsDigits(part[1]) THEN <<ParseInt(part[1])>>
    ELSE IF Len(part) = 3 /\ IsDigits(part[1]) /\ part[2] = "-" /\ IsDigits(part[3])
         THEN LET a == ParseInt(part[1])
                  b == ParseInt(part[3])
                  lo == IF a <= b THEN a ELSE b
                  hi == Max2(a, b)
              IN [k \in 1..(hi - lo + 1) |-> lo + k - 1]
         ELSE <<>>

parseBracketIndices(text) ==
    LET blocks == BracketBlocks(text)
        parts == Flatten([k \in 1..Len(blocks) |-> SplitParts(blocks[k], <<>>)])
    IN Flatten([k \in 1..Len(parts) |-> ParsePart(parts[k])])

\* what formatCitationGroup pushes for the run start..prev
GroupRun(start, prev) ==
    IF start = prev THEN <<<<ToString(start)>>>>
    ELSE IF prev = start + 1 THEN <<<<ToString(start)>>, <<ToString(prev)>>>>
    ELSE <<<<ToString(start), "-", ToString(prev)>>>>

\* the loop of formatCitationGroup at index i (cur is undefined past the end)
RECURSIVE groupFrom(_, _, _, _)
groupFrom(arr, i, start, prev) ==
    IF i <= Len(arr) /\ arr[i] = prev + 1 THEN groupFrom(arr, i + 1, start, arr[i])
    ELSE GroupRun(start, prev) \o (IF i <= Len(arr) THEN groupFrom(arr, i + 1, arr[i], arr[i]) ELSE <<>>)

formatCitationGroup(indices) ==
    LET arr == SortNums(uniqueInOrder(indices))
    IN IF arr = <<>> THEN <<"[", "]">>
       ELSE <<"[">> \o JoinWith(groupFrom(arr, 2, arr[1], arr[1]), ", ") \o <<"]">>

---------------------------------------------------------------------------
(* taskpane.ts: the marker scan *)

\* a content control as the scan sees it: [title, tag, ids, pos, n].  title "cite"
\* is "WordRef Citation", "group" is GROUP_TITLE; tag "cite" is the prefix
\* "wordref-cite:", "group" is GROUP_PREFIX, "" no tag; ids: the identifiers after
\* the prefix, trimmed, empty ones dropped; pos: where the control starts; n: its
\* place in the host's enumeration
compareLocationWith(a, b) ==
    IF a.pos < b.pos THEN "before" ELSE IF a.pos > b.pos THEN "after" ELSE "equal"

\* the sort without its comparisons: discovery order
insertSorted_push(sorted, it) == Append(sorted, it)

\* the inner loop with a test for "not after": a tie goes before its occupant
insertSorted_tie(sorted, it) ==
    IF \E i \in 1..Len(sorted) : compareLocationWith(it, sorted[i]) # "after"
    THEN LET i == CHOOSE k \in 1..Len(sorted) :
                     /\ compareLocationWith(it, sorted[k]) # "after"
                     /\ \A m \in 1..(k-1) : compareLocationWith(it, sorted[m]) = "after"
         IN InsertAt(sorted, i, it)
    ELSE Append(sorted, it)

\* the inner loop of the sort: splice the item before the first occupant it is before
insertSorted(sorted, it) ==
    IF \E i \in 1..Len(sorted) : compareLocationWith(it, sorted[i]) = "before"
    THEN LET i == CHOOSE k \in 1..Len(sorted) :
                     /\ compareLocationWith(it, sorted[k]) = "before"
                     /\ \A m \in 1..(k-1) : compareLocationWith(it, sorted[m]) # "before"
         IN InsertAt(sorted, i, it)
    ELSE Append(sorted, it)

RECURSIVE sortItems(_, _)
sortItems(items, sorted) ==
    IF items = <<>> THEN sorted ELSE sortItems(Tail(items), insertSorted(sorted, Head(items)))

\* a single or a group marker: title and tag of the same kind
IsMarker(c) == c.tag # "" /\ c.title = c.tag /\ c.tag \in {"cite", "group"}

\* the items the scan keeps: single and group markers with a non-empty id list
scanItems(ctrls) == SelectSeq(ctrls, LAMBDA c : IsMarker(c) /\ c.ids # <<>>)

scanSorted(ctrls) == sortItems(scanItems(ctrls), <<>>)

\* the scan with every marker's identifier list made unique
getAllCitationIdsInDoc_unique(ctrls) ==
    LET sorted == scanSorted(ctrls) IN Flatten([i \in 1..Len(sorted) |-> uniqueInOrder(sorted[i].ids)])

getAllCitationIdsInDoc(ctrls) ==
    LET sorted == scanSorted(ctrls) IN Flatten([i \in 1..Len(sorted) |-> sorted[i].ids])

\* the controls of document d as the host enumerates them (enum: a permutation)
Controls(d, enum) ==
    [i \in 1..Len(d) |-> [title |-> d[enum[i]].kind, tag |-> d[enum[i]].kind, ids |-> d[enum[i]].ids,
                           pos |-> enum[i], n |-> i]]

Perms(n) == {f \in [1..n -> 1..n] : \A i, j \in 1..n : f[i] = f[j] => i = j}

IdentityEnum(d) == [i \in 1..Len(d) |-> i]

---------------------------------------------------------------------------
(* lib/cite and taskpane.ts: re-rendering and the bibliography *)

rerenderAllCitations(d, sty, ord, l) ==
    [i \in 1..Len(d) |->
        IF d[i].kind = "cite" /\ d[i].ids # <<>> /\ d[i].ids[1] \in l
        THEN [d[i] EXCEPT !.text =
                 formatInText(Entry(d[i].ids[1]), sty, Max2(0, IndexOf(ord, d[i].ids[1])) + 1)]
        ELSE d[i]]

\* strip the outer brackets of an in-text label
StripOuter(t) ==
    LET a == IF t # <<>> /\ Head(t) \in {"(", "[", " "} THEN Tail(t) ELSE t
    IN IF a # <<>> /\ a[Len(a)] \in {")", "]", " "} THEN SubSeq(a, 1, Len(a) - 1) ELSE a

formatGroupFromIds(ids, sty, l, ord) ==
    LET uniq == uniqueInOrder(ids)
        known == SelectSeq(uniq, LAMBDA id : id \in l)
        numbered == SelectSeq(known, LAMBDA id : IndexOf(ord, id) + 1 > 0)
        numericIdx == SortNums([i \in 1..Len(numbered) |-> IndexOf(ord, numbered[i]) + 1])
        alphaBits == [i \in 1..Len(known) |->
                        StripOuter(formatInText(Entry(known[i]), sty,
                                                Max2(IndexOf(ord, known[i]) + 1, 1)))]
    IN IF isNumericStyle(sty)
       THEN <<"[">> \o compressNumericList(numericIdx) \o <<"]">>
       ELSE <<"(">> \o JoinWith(alphaBits, "; ") \o <<")">>

rerenderGroupCitations(d, sty, l, ord) ==
    [i \in 1..Len(d) |->
        IF d[i].kind = "group"
        THEN [d[i] EXCEPT !.text = formatGroupFromIds(d[i].ids, sty, l, ord)]
        ELSE d[i]]

\* Array.prototype.sort by author field (stable)
RECURSIVE SortByAuthor(_)
SortByAuthor(s) ==
    IF s = <<>> THEN <<>>
    ELSE LET m == CHOOSE i \in 1..Len(s) :
                     /\ \A k \in 1..Len(s) : AuthorRank(Entry(s[i]).author) <= AuthorRank(Entry(s[k]).author)
                     /\ \A k \in 1..(i-1) : AuthorRank(Entry(s[k]).author) # AuthorRank(Entry(s[i]).author)
         IN <<s[m]>> \o SortByAuthor(RemoveAt(s, m))

\* the order in which updateBibliography lists the entries it is given
BibList(entries, sty) ==
    LET list == uniqueInOrder(entries)
    IN IF normalizeStyle(sty) \in {"apa", "harvard", "mla"} THEN SortByAuthor(list) ELSE list

BibLines(entries, sty) ==
    LET list == BibList(entries, sty)
    IN [i \in 1..Len(list) |-> formatBibliographyEntry(Entry(list[i]), sty, i)]

\* the bibliography block written with insertText(bibText, "End")
BibWrite_append(old, lines) == old \o lines

\* bibCC.insertText(bibText, "Replace")
BibWrite(old, lines) == lines

\* step 4 without its filter(Boolean)
CitedEntries_all(uniqueOrder, l) == uniqueOrder

\* step 4 of refreshNumbersAndBibliography: the entries handed to updateBibliography
CitedEntries(uniqueOrder, l) == SelectSeq(uniqueOrder, LAMBDA id : id \in l)

---------------------------------------------------------------------------
(* lib/storage: the stored order *)

\* setCitedOrder: the list is stored as given
setCitedOrder(ids) == ids

\* markCited that puts a new identifier first
markCited_front(read, stored, id) == IF ~Contains(read, id) THEN <<id>> \o read ELSE stored

\* markCited without its includes test
markCited_push(read, stored, id) == Append(read, id)

\* markCited, the write after its read of the stored order (read)
markCited(read, stored, id) == IF ~Contains(read, id) THEN Append(read, id) ELSE stored

---------------------------------------------------------------------------
(* taskpane.ts: merge and unmerge batches *)

Single(id, text) == [kind |-> "cite", ids |-> <<id>>, text |-> text]

\* selection lo..hi (empty when hi < lo): the single controls wholly inside it
MergePicked(d, lo, hi) == {i \in lo..hi : i \in 1..Len(d) /\ d[i].kind = "cite"}

renderMergedText(ids, sty, l, ord) ==
    LET uniq == uniqueInOrder(ids)
        numbered == SelectSeq(uniq, LAMBDA id : IndexOf(ord, id) + 1 > 0)
        nums == SortNums([i \in 1..Len(numbered) |-> IndexOf(ord, numbered[i]) + 1])
        known == SelectSeq(uniq, LAMBDA id : id \in l)
        bits == [i \in 1..Len(known) |->
                    StripOuter(formatInText(Entry(known[i]), sty,
                                            Max2(IndexOf(ord, known[i]) + 1, 1)))]
    IN IF isNumericStyle(sty)
       THEN <<"[">> \o compressNumericList(nums) \o <<"]">>
       ELSE <<"(">> \o JoinWith(bits, "; ") \o <<")">>

\* the merge batch with a tag that lists every identifier once
onMergeBatch_unique(d, enum, lo, hi, sty, l, ord) ==
    LET picked == SelectSeq(Controls(d, enum), LAMBDA c : c.pos \in MergePicked(d, lo, hi))
        sorted == sortItems(picked, <<>>)
        ids == uniqueInOrder([i \in 1..Len(sorted) |-> sorted[i].ids[1]])
        first == sorted[1].pos
        rest == {sorted[i].pos : i \in 2..Len(sorted)}
        grp == [kind |-> "group", ids |-> ids, text |-> renderMergedText(ids, sty, l, ord)]
        keep == SelectSeq([i \in 1..Len(d) |-> i], LAMBDA i : i \notin rest)
    IN IF Len(picked) < 2 THEN d
       ELSE [k \in 1..Len(keep) |-> IF keep[k] = first THEN grp ELSE d[keep[k]]]

\* the Word.run batch of onMergeSelectedCitations; enum: host enumeration of d
onMergeBatch(d, enum, lo, hi, sty, l, ord) ==
    LET picked == SelectSeq(Controls(d, enum), LAMBDA c : c.pos \in MergePicked(d, lo, hi))
        sorted == sortItems(picked, <<>>)
        ids == [i \in 1..Len(sorted) |-> sorted[i].ids[1]]
        first == sorted[1].pos
        rest == {sorted[i].pos : i \in 2..Len(sorted)}
        grp == [kind |-> "group", ids |-> ids, text |-> renderMergedText(ids, sty, l, ord)]
        keep == SelectSeq([i \in 1..Len(d) |-> i], LAMBDA i : i \notin rest)
    IN IF Len(picked) < 2 THEN d
       ELSE [k \in 1..Len(keep) |-> IF keep[k] = first THEN grp ELSE d[keep[k]]]

\* the group controls inside the selection lo..hi
UnmergeTargets(d, lo, hi) == {i \in lo..hi : i \in 1..Len(d) /\ d[i].kind = "group"}

\* validIds that lists every identifier once
validIds_unique(ids, l) == uniqueInOrder(SelectSeq(ids, LAMBDA id : id \in l))

\* the identifiers that get a single control back
validIds(ids, l) == SelectSeq(ids, LAMBDA id : id \in l)

\* the unmerge batch that leaves the group control in place after the singles
onUnmergeBatch_keep(d, g, l) ==
    LET v == validIds(d[g].ids, l)
    IN IF v = <<>> THEN d
       ELSE SubSeq(d, 1, g - 1) \o [i \in 1..Len(v) |-> Single(v[i], <<>>)] \o SubSeq(d, g, Len(d))

\* the Word.run batch of onUnmergeSelectedCitation with target g
onUnmergeBatch(d, g, l) ==
    LET v == validIds(d[g].ids, l)
    IN IF v = <<>> THEN d
       ELSE SubSeq(d, 1, g - 1) \o [i \in 1..Len(v) |-> Single(v[i], <<>>)] \o SubSeq(d, g + 1, Len(d))

---------------------------------------------------------------------------
(* the whole pipeline run in one piece: refreshNumbersAndBibliography followed
   by rerenderGroupCitations, nothing else running *)

RefreshAll(d, b, sty, l) ==
    LET u == uniqueInOrder(getAllCitationIdsInDoc(Controls(d, IdentityEnum(d))))
        stored == setCitedOrder(u)
        d1 == rerenderAllCitations(d, sty, u, l)
        b1 == BibWrite(b, BibLines(CitedEntries(u, l), sty))
    IN [doc |-> rerenderGroupCitations(d1, sty, l, stored), order |-> stored, bib |-> b1]

---------------------------------------------------------------------------
(* State *)

Idle == [op |-> "idle", pc |-> "idle", id |-> "", idx |-> 0, u |-> <<>>, ord |-> <<>>,
         sty |-> "", tlib |-> {}, clean |-> FALSE, noEdit |-> FALSE, noop |-> FALSE]

None == [kind |-> "none"]

NotScanned == [done |-> FALSE, sorted |-> <<>>, out |-> <<>>, uniq |-> <<>>]

NoMerge == [ids |-> <<>>, sty |-> ""]

NoDebounce == [timers |-> {}, since |-> 0, burst |-> 0, runs |-> 0]

NoFlight == [op |-> FALSE, style |-> FALSE, failed |-> {}]

NotCompressed == [done |-> FALSE, numeric |-> <<>>, group |-> <<>>, parsedNumeric |-> <<>>, parsedGroup |-> <<>>]

\* positions of a handler inside the refresh pipeline, after its scan
PipelinePcs == {"set", "rer", "bib", "grp"}

Refreshing == {t \in Tasks : tasks[t].pc \in PipelinePcs}

\* a write by t: every other pipeline has no longer run alone
Dirty(ts, t) == [x \in Tasks |-> IF x # t THEN [ts[x] EXCEPT !.clean = FALSE] ELSE ts[x]]

\* a user input (an edit of the document, a Library or a style change): no
\* running pipeline has run without one
Edited(ts) == [x \in Tasks |-> [ts[x] EXCEPT !.clean = FALSE, !.noEdit = FALSE]]

IdsOf(d) == UNION {Range(d[i].ids) : i \in 1..Len(d)}

\* the controls a saved document can hold
InitShapes ==
    {Single(id, <<>>) : id \in Ids}
      \cup {[kind |-> "group", ids |-> g, text |-> <<>>] : g \in SeqsOf(Ids, 2, 2)}

\* The add-in starts on a document that it refreshed in an earlier session (D: the
\* documents, as their citation controls; S: the styles of that session).  The
\* Library lives in a store of its own (getStore), so it may hold fewer entries
\* than the document cites (L: the Libraries).  T: the task slots, o: handler
\* starts, e: user edits allowed.
InitWith(D, S, L, T, o, e) ==
    \E d \in D, sty \in S, l \in L :
        LET r == RefreshAll(d, <<>>, sty, Ids) IN
        /\ doc = r.doc
        /\ order = r.order
        /\ bib = r.bib
        /\ heading = (d # <<>>)
        /\ bibcc = (d # <<>>)
        /\ lib = l
        /\ style = sty
        /\ tasks = [t \in Tasks |-> Idle]
        /\ slots = T
        /\ ops = o
        /\ edits = e
        /\ everCited = IdsOf(d)
        /\ midEdit = FALSE
        /\ styleTimer = FALSE
        /\ ev = None
        /\ lastMerge = NoMerge
        /\ scanIn = <<>>
        /\ scanOut = NotScanned
        /\ compIn = {}
        /\ compOut = NotCompressed
        /\ deb = NoDebounce
        /\ inFlight = NoFlight

\* one handler at a time
Init == InitWith(SeqsOf(InitShapes, 0, MaxInit), Styles, SUBSET Ids, {"t1"}, MaxOps, MaxEdits)

\* handlers overlap
InitConc ==
    InitWith({<<>>, <<Single("A", <<>>)>>, <<[kind |-> "group", ids |-> <<"A", "B">>, text |-> <<>>]>>},
             {"ieee"}, {Ids}, Tasks, MaxConcOps, MaxEdits)

\* the variables of the harnesses and the single-flight flags
Pure == <<compIn, compOut, deb, inFlight>>

Fixed == <<slots, scanIn, scanOut, lastMerge, Pure>>

Rest == <<Fixed, styleTimer>>

\* the content controls a document can hold, by title, tag and identifiers
ScanShapes ==
    {[title |-> "cite", tag |-> "cite", ids |-> <<"A">>],
     [title |-> "cite", tag |-> "cite", ids |-> <<"B">>],
     [title |-> "cite", tag |-> "cite", ids |-> <<>>],
     [title |-> "group", tag |-> "group", ids |-> <<>>],
     [title |-> "group", tag |-> "group", ids |-> <<"B", "A">>],
     [title |-> "group", tag |-> "group", ids |-> <<"C", "A">>],
     [title |-> "group", tag |-> "group", ids |-> <<"A", "A">>],
     [title |-> "other", tag |-> "group", ids |-> <<"A", "B">>],
     [title |-> "other", tag |-> "", ids |-> <<>>]}

Positions == 1..MaxScan

\* the scan on its own: nothing else running, no document yet
InitScan ==
    /\ scanIn = <<>>
    /\ scanOut = NotScanned
    /\ doc = <<>> /\ order = <<>> /\ bib = <<>> /\ heading = FALSE /\ bibcc = FALSE
    /\ lib = {} /\ style = "ieee"
    /\ tasks = [t \in Tasks |-> Idle]
    /\ slots = {} /\ ops = 0 /\ edits = 0
    /\ everCited = {} /\ midEdit = FALSE /\ ev = None /\ styleTimer = FALSE
    /\ lastMerge = NoMerge
    /\ compIn = {} /\ compOut = NotCompressed
    /\ deb = NoDebounce
    /\ inFlight = NoFlight

\* the document to scan gets one more control, the next in the host's
\* enumeration, of any shape and at any position
ScanAdd ==
    /\ ~scanOut.done
    /\ Len(scanIn) < MaxScan
    /\ \E sh \in ScanShapes, p \in Positions :
          scanIn' = Append(scanIn, [title |-> sh.title, tag |-> sh.tag, ids |-> sh.ids, pos |-> p,
                                    n |-> Len(scanIn) + 1])
    /\ UNCHANGED <<doc, order, lib, style, heading, bibcc, bib, tasks, slots, ops, edits,
                   everCited, midEdit, ev, scanOut, styleTimer, lastMerge, Pure>>

\* step 1 of the refresh on the document scanIn: getAllCitationIdsInDoc, then
\* uniqueInOrder of the identifiers it returns
ScanDoc ==
    /\ ~scanOut.done
    /\ scanOut' = [done |-> TRUE, sorted |-> scanSorted(scanIn), out |-> getAllCitationIdsInDoc(scanIn),
                   uniq |-> uniqueInOrder(getAllCitationIdsInDoc(scanIn))]
    /\ UNCHANGED <<doc, order, lib, style, heading, bibcc, bib, tasks, slots, ops, edits,
                   everCited, midEdit, ev, scanIn, styleTimer, lastMerge, Pure>>

\* what the adjacent-merge pass meets in a document, in reading order: single
\* markers, text, a content control that is no citation, a paragraph mark
ItemShapes ==
    {[kind |-> "cite", id |-> "A"], [kind |-> "cite", id |-> "B"], [kind |-> "text", id |-> ""],
     [kind |-> "cc", id |-> ""], [kind |-> "para", id |-> ""]}

\* the paragraph of the item at place i
ParaOf(items, i) == Cardinality({j \in 1..(i - 1) : items[j].kind = "para"})

\* mergeAdjacentCitationsInParagraph of taskpane.ts: the sets of places whose
\* single markers it makes one marker (the first keeps the combined text, the
\* others are deleted): per paragraph, all its single markers when there are two
\* or more
mergeAdjacentCitationsInParagraph(items) ==
    LET singles(p) == {i \in 1..Len(items) : items[i].kind = "cite" /\ ParaOf(items, i) = p}
    IN {singles(p) : p \in {q \in 0..Len(items) : Cardinality(singles(q)) >= 2}}

\* mergeAdjacentCitationsInParagraph of lib/cite with the selection at place
\* sel: in the paragraph of the selection, every run of two or more single
\* markers that follow each other in para.contentControls.items
Cite_mergeAdjacentCitationsInParagraph(items, sel) ==
    LET ccs == {i \in 1..Len(items) : items[i].kind \in {"cite", "cc"} /\ ParaOf(items, i) = ParaOf(items, sel)}
        run(i) == {j \in ccs : \A k \in ccs : ((i <= k /\ k <= j) \/ (j <= k /\ k <= i)) => items[k].kind = "cite"}
    IN {r \in {run(i) : i \in {c \in ccs : items[c].kind = "cite"}} : Cardinality(r) >= 2}

\* what the pass leaves of the items when it merges the runs: the first marker
\* of a run stays with its tag (first.insertText(combined, "Replace") writes its
\* text only), the other markers of the run are deleted with their content
deleteMerged(items, runs) ==
    LET first(G) == CHOOSE i \in G : \A j \in G : i <= j
        gone == UNION {G \ {first(G)} : G \in runs}
        keep == SelectSeq([i \in 1..Len(items) |-> i], LAMBDA i : i \notin gone)
    IN [k \in 1..Len(keep) |-> items[keep[k]]]

\* the document of the merge pass gets one more item at its end
AdjAdd(sh) ==
    /\ ~scanOut.done
    /\ Len(scanIn) < MaxItems
    /\ scanIn' = Append(scanIn, sh)
    /\ UNCHANGED <<doc, order, lib, style, heading, bibcc, bib, tasks, slots, ops, edits,
                   everCited, midEdit, ev, scanOut, styleTimer, lastMerge, Pure>>

\* the merge pass of taskpane.ts, and that of lib/cite with the selection at sel
AdjRun(sel) ==
    /\ ~scanOut.done
    /\ sel \in 1..Len(scanIn)
    /\ scanOut' = [done |-> TRUE, sel |-> sel,
                   pane |-> mergeAdjacentCitationsInParagraph(scanIn),
                   cite |-> Cite_mergeAdjacentCitationsInParagraph(scanIn, sel),
                   paneAfter |-> deleteMerged(scanIn, mergeAdjacentCitationsInParagraph(scanIn)),
                   citeAfter |-> deleteMerged(scanIn, Cite_mergeAdjacentCitationsInParagraph(scanIn, sel))]
    /\ UNCHANGED <<doc, order, lib, style, heading, bibcc, bib, tasks, slots, ops, edits,
                   everCited, midEdit, ev, scanIn, styleTimer, lastMerge, Pure>>

\* texts of the paragraphs of a document, as tokens
ParaTexts ==
    {<<"References">>, <<" ", "REFERENCES">>, <<"references", " ">>, <<"Bibliography">>,
     <<"Selected ", "references">>, <<"Selected ", "bibliography">>, <<"Intro">>}

\* p.text.trim().toLowerCase() === "references"
IsReferences(text) ==
    LET t == Trim(text) IN [i \in 1..Len(t) |-> toLowerCase(t[i])] = <<"references">>

\* the heading step of updateBibliography on the paragraphs paras: the heading
\* it finds (at: its place), or the paragraphs it appends when it finds none
ensureReferencesHeading(paras) ==
    IF \E i \in 1..Len(paras) : IsReferences(paras[i])
    THEN [at |-> CHOOSE i \in 1..Len(paras) : IsReferences(paras[i]) /\ \A j \in 1..(i - 1) : ~IsReferences(paras[j]),
          paras |-> paras]
    ELSE [at |-> Len(paras) + 1, paras |-> paras \o <<<<"References">>, <<>>>>]

\* the document gets one more paragraph at its end
HeadAdd(text) ==
    /\ ~scanOut.done
    /\ Len(scanIn) < MaxItems
    /\ scanIn' = Append(scanIn, text)
    /\ UNCHANGED <<doc, order, lib, style, heading, bibcc, bib, tasks, slots, ops, edits,
                   everCited, midEdit, ev, scanOut, styleTimer, lastMerge, Pure>>

\* updateBibliography up to its heading
HeadRun ==
    /\ ~scanOut.done
    /\ scanOut' = [done |-> TRUE, at |-> ensureReferencesHeading(scanIn).at,
                   paras |-> ensureReferencesHeading(scanIn).paras]
    /\ UNCHANGED <<doc, order, lib, style, heading, bibcc, bib, tasks, slots, ops, edits,
                   everCited, midEdit, ev, scanIn, styleTimer, lastMerge, Pure>>

\* the entries that Bib.parseBibtex returns for a pasted text: an identifier
\* and the fields that came with it (v)
PastedEntries == [id : Ids, v : {"v1", "v2"}]

\* the Libraries a handler can find, as the fields stored per identifier ("":
\* no entry): no entry at all, or entry A stored earlier
Stores == {[id \in Ids |-> ""], [id \in Ids |-> IF id = "A" THEN "v0" ELSE ""]}

\* upsertEntry: lib[entry.id] = { ...(lib[entry.id] || {}), ...entry }, where
\* entry has every property that normalizeEntry gives it
upsertEntry(store, e) == [store EXCEPT ![e.id] = e.v]

\* the loop of a handler over the pasted entries.  snap is the handler's own
\* copy of the Library, read once before the loop; an entry whose identifier it
\* holds is skipped; keeps: the handler writes every entry it stores into its
\* copy as well.  Returns the Library and the identifiers stored, in order
RECURSIVE addLoop(_, _, _, _)
addLoop(store, snap, entries, keeps) ==
    IF entries = <<>> THEN [store |-> store, added |-> <<>>]
    ELSE IF snap[Head(entries).id] # "" THEN addLoop(store, snap, Tail(entries), keeps)
    ELSE LET e == Head(entries)
             r == addLoop(upsertEntry(store, e), IF keeps THEN upsertEntry(snap, e) ELSE snap,
                          Tail(entries), keeps)
         IN [store |-> r.store, added |-> <<e.id>> \o r.added]

\* onAddOnly: the Library it leaves
onAddOnly(store, entries) == addLoop(store, store, entries, FALSE).store

\* onAddAndCite: the Library it leaves and the identifiers it has inserted a
\* marker for (ensureCitedIndex and simpleInsert follow every upsertEntry)
onAddAndCite(store, entries) ==
    LET r == addLoop(store, store, entries, TRUE) IN [store |-> r.store, cited |-> r.added]

\* onImportBibtexPasted: the Library it leaves
onImportBibtexPasted(store, entries) == addLoop(store, store, entries, TRUE).store

\* the pasted text gets one more entry at its end
AddPaste(e) ==
    /\ ~scanOut.done
    /\ Len(scanIn) < MaxItems
    /\ scanIn' = Append(scanIn, e)
    /\ UNCHANGED <<doc, order, lib, style, heading, bibcc, bib, tasks, slots, ops, edits,
                   everCited, midEdit, ev, scanOut, styleTimer, lastMerge, Pure>>

\* each of the three handlers run on the pasted text against the Library store
AddRun(store) ==
    /\ ~scanOut.done
    /\ scanOut' = [done |-> TRUE, lib |-> store,
                   only |-> onAddOnly(store, scanIn),
                   cite |-> onAddAndCite(store, scanIn),
                   import |-> onImportBibtexPasted(store, scanIn)]
    /\ UNCHANGED <<doc, order, lib, style, heading, bibcc, bib, tasks, slots, ops, edits,
                   everCited, midEdit, ev, scanIn, styleTimer, lastMerge, Pure>>

\* the bibliography on its own: a Library with every entry, no document
InitBib ==
    /\ order = <<>>
    /\ lib = BibIds
    /\ style \in AllStyles
    /\ bib = <<>> /\ heading = FALSE /\ bibcc = FALSE
    /\ doc = <<>>
    /\ tasks = [t \in Tasks |-> Idle]
    /\ slots = {} /\ ops = 0 /\ edits = 0
    /\ everCited = {} /\ midEdit = FALSE /\ ev = None /\ styleTimer = FALSE
    /\ lastMerge = NoMerge
    /\ scanIn = <<>> /\ scanOut = NotScanned
    /\ compIn = {} /\ compOut = NotCompressed
    /\ deb = NoDebounce
    /\ inFlight = NoFlight

\* steps 1 and 2 of the refresh on a document that cites one more entry: the
\* stored first-appearance order gets its identifier
BibAdd(id) ==
    /\ ~bibcc
    /\ Len(order) < MaxBib
    /\ id \notin Range(order)
    /\ order' = setCitedOrder(Append(order, id))
    /\ UNCHANGED <<doc, lib, style, heading, bibcc, bib, tasks, ops, edits, everCited, midEdit, ev, Rest>>

\* step 4 of the refresh and updateBibliography
BibRefresh ==
    /\ ~bibcc
    /\ heading' = TRUE
    /\ bibcc' = TRUE
    /\ bib' = BibWrite(bib, BibLines(CitedEntries(order, lib), style))
    /\ UNCHANGED <<doc, order, lib, style, tasks, ops, edits, everCited, midEdit, ev, Rest>>

\* formatting on its own: a Library with every entry, a document of single
\* markers that have no text yet (as the unmerge batch leaves them), any style
InitFmt ==
    /\ doc = <<>>
    /\ style \in StyleInputs
    /\ lib = BibIds
    /\ order = <<>> /\ bib = <<>> /\ heading = FALSE /\ bibcc = FALSE
    /\ tasks = [t \in Tasks |-> Idle]
    /\ slots = {} /\ ops = 0 /\ edits = 0
    /\ everCited = {} /\ midEdit = FALSE /\ ev = None /\ styleTimer = FALSE
    /\ lastMerge = NoMerge
    /\ scanIn = <<>> /\ scanOut = NotScanned
    /\ compIn = {} /\ compOut = NotCompressed
    /\ deb = NoDebounce
    /\ inFlight = NoFlight

\* one more single marker at the end of the document
FmtCite(id) ==
    /\ ~bibcc
    /\ Len(doc) < MaxBib
    /\ doc' = Append(doc, Single(id, <<>>))
    /\ UNCHANGED <<order, lib, style, heading, bibcc, bib, tasks, ops, edits, everCited, midEdit, ev, Rest>>

\* refreshNumbersAndBibliography and rerenderGroupCitations under the style
FmtRefresh ==
    /\ ~bibcc
    /\ LET r == RefreshAll(doc, bib, style, lib)
       IN doc' = r.doc /\ order' = r.order /\ bib' = r.bib
    /\ heading' = TRUE
    /\ bibcc' = TRUE
    /\ ev' = [kind |-> "formatted", doc |-> doc]
    /\ UNCHANGED <<lib, style, tasks, ops, edits, everCited, midEdit, Rest>>

\* the stored order on its own: markCited called again and again, each call
\* running from its read to its write with nothing in between
InitMark ==
    /\ order = <<>>
    /\ ops = MaxCalls
    /\ ev = None
    /\ lib = BibIds /\ style = "ieee"
    /\ doc = <<>> /\ bib = <<>> /\ heading = FALSE /\ bibcc = FALSE
    /\ tasks = [t \in Tasks |-> Idle]
    /\ slots = {} /\ edits = 0
    /\ everCited = {} /\ midEdit = FALSE /\ styleTimer = FALSE
    /\ lastMerge = NoMerge
    /\ scanIn = <<>> /\ scanOut = NotScanned
    /\ compIn = {} /\ compOut = NotCompressed
    /\ deb = NoDebounce
    /\ inFlight = NoFlight

\* await markCited(id)
MarkCited(id) ==
    /\ ops > 0
    /\ order' = markCited(order, order, id)
    /\ ops' = ops - 1
    /\ ev' = [kind |-> "marked", id |-> id, before |-> order]
    /\ UNCHANGED <<doc, lib, style, heading, bibcc, bib, tasks, edits, everCited, midEdit, Rest>>

\* the compressors and the parser on their own
InitComp ==
    /\ compIn = {}
    /\ compOut = NotCompressed
    /\ scanIn = <<>> /\ scanOut = NotScanned
    /\ doc = <<>> /\ order = <<>> /\ bib = <<>> /\ heading = FALSE /\ bibcc = FALSE
    /\ lib = {} /\ style = "ieee"
    /\ tasks = [t \in Tasks |-> Idle]
    /\ slots = {} /\ ops = 0 /\ edits = 0
    /\ everCited = {} /\ midEdit = FALSE /\ ev = None /\ styleTimer = FALSE
    /\ lastMerge = NoMerge
    /\ deb = NoDebounce
    /\ inFlight = NoFlight

\* one more CitedOrder index among those of the markers to combine
CompAdd(n) ==
    /\ ~compOut.done
    /\ n \notin compIn
    /\ compIn' = compIn \cup {n}
    /\ UNCHANGED <<doc, order, lib, style, heading, bibcc, bib, tasks, slots, ops, edits,
                   everCited, midEdit, ev, styleTimer, lastMerge, scanIn, scanOut, compOut, deb, inFlight>>

\* the indices, sorted as the callers sort them, go through compressNumericList
\* (wrapped in one bracket as formatGroupFromIds does) and through
\* formatCitationGroup; parseBracketIndices reads each text back
CompRun ==
    /\ ~compOut.done
    /\ LET nums == Ascending(compIn)
           numeric == <<"[">> \o compressNumericList(nums) \o <<"]">>
           group == formatCitationGroup(nums)
       IN compOut' = [done |-> TRUE, numeric |-> numeric, group |-> group,
                      parsedNumeric |-> parseBracketIndices(numeric),
                      parsedGroup |-> parseBracketIndices(group)]
    /\ UNCHANGED <<doc, order, lib, style, heading, bibcc, bib, tasks, slots, ops, edits,
                   everCited, midEdit, ev, styleTimer, lastMerge, scanIn, scanOut, compIn, deb, inFlight>>

---------------------------------------------------------------------------
(* The single-flight flags *)

\* the handlers whose refresh runs under a flag
GuardedOps == {"safe", "style"}

\* opInFlight = true; styleChangeInFlight = true
raiseFlag(f, op) ==
    IF op = "safe" THEN [f EXCEPT !.op = TRUE]
    ELSE IF op = "style" THEN [f EXCEPT !.style = TRUE]
    ELSE f

\* the flag cleared after the refresh, in no finally block and after no catch
releaseFlag_onSuccess(f, op, failed) ==
    IF failed THEN [f EXCEPT !.failed = @ \cup ({op} \cap GuardedOps)]
    ELSE IF op = "safe" THEN [f EXCEPT !.op = FALSE]
    ELSE IF op = "style" THEN [f EXCEPT !.style = FALSE]
    ELSE f

\* the end of the guarded refresh of handler op, failed or not: the finally of
\* safeRefreshAll, the statements after guard(..) in the callback of onStyleChanged
releaseFlag(f, op, failed) ==
    LET g == IF failed THEN [f EXCEPT !.failed = @ \cup ({op} \cap GuardedOps)] ELSE f
    IN IF op = "safe" THEN [g EXCEPT !.op = FALSE]
       ELSE IF op = "style" THEN [g EXCEPT !.style = FALSE]
       ELSE g

---------------------------------------------------------------------------
(* The refresh pipeline, one awaited call per step *)

\* refreshNumbersAndBibliography: getStyle, getLibrary, getAllCitationIdsInDoc, uniqueInOrder
ScanStep(t) ==
    /\ tasks[t].pc = "scan"
    /\ \E enum \in Perms(Len(doc)) :
         tasks' = [tasks EXCEPT ![t] = [@ EXCEPT !.pc = "set", !.sty = style, !.tlib = lib,
                      !.u = uniqueInOrder(getAllCitationIdsInDoc(Controls(doc, enum))),
                      !.clean = TRUE, !.noEdit = TRUE]]
    /\ ev' = None
    /\ UNCHANGED <<doc, order, lib, style, heading, bibcc, bib, ops, edits, everCited, midEdit, Rest>>

\* await setCitedOrder(uniqueOrder)
SetOrderStep(t) ==
    /\ tasks[t].pc = "set"
    /\ order' = setCitedOrder(tasks[t].u)
    /\ tasks' = Dirty([tasks EXCEPT ![t].pc = "rer"], t)
    /\ ev' = None
    /\ UNCHANGED <<doc, lib, style, heading, bibcc, bib, ops, edits, everCited, midEdit, Rest>>

\* await rerenderAllCitations(style, uniqueOrder, lib)
RerenderStep(t) ==
    /\ tasks[t].pc = "rer"
    /\ doc' = rerenderAllCitations(doc, tasks[t].sty, tasks[t].u, tasks[t].tlib)
    /\ tasks' = Dirty([tasks EXCEPT ![t].pc = "bib"], t)
    /\ ev' = None
    /\ UNCHANGED <<order, lib, style, heading, bibcc, bib, ops, edits, everCited, midEdit, Rest>>

\* await updateBibliography(cited, style, opts)
BibStep(t) ==
    /\ tasks[t].pc = "bib"
    /\ heading' = TRUE
    /\ bibcc' = TRUE
    /\ bib' = BibWrite(bib, BibLines(CitedEntries(tasks[t].u, tasks[t].tlib), tasks[t].sty))
    /\ tasks' = Dirty([tasks EXCEPT ![t].pc = "grp"], t)
    /\ ev' = None
    /\ UNCHANGED <<doc, order, lib, style, ops, edits, everCited, midEdit, Rest>>

\* await rerenderGroupCitations(getStyle()), the last call of every handler
GroupStep(t) ==
    /\ tasks[t].pc = "grp"
    /\ doc' = rerenderGroupCitations(doc, style, lib, order)
    /\ tasks' = Dirty([tasks EXCEPT ![t] = Idle], t)
    /\ ev' = [kind |-> "refreshDone", clean |-> tasks[t].clean, noEdit |-> tasks[t].noEdit]
    /\ inFlight' = releaseFlag(inFlight, tasks[t].op, FALSE)
    /\ UNCHANGED <<order, lib, style, heading, bibcc, bib, ops, edits, everCited, midEdit, styleTimer,
                   slots, scanIn, scanOut, lastMerge, compIn, compOut, deb>>

---------------------------------------------------------------------------
(* Handlers *)

\* a handler starts in the first free slot
FreeSlot(t) ==
    /\ t \in slots
    /\ tasks[t].pc = "idle"
    /\ t = "t2" => tasks["t1"].pc # "idle"

CanStart(t) == FreeSlot(t) /\ ops > 0

Begin(t, op, pc) == [tasks EXCEPT ![t] = [Idle EXCEPT !.op = op, !.pc = pc]]

\* onUpdateBib
StartUpdate(t) ==
    /\ CanStart(t)
    /\ tasks' = Begin(t, "update", "scan")
    /\ ops' = ops - 1
    /\ ev' = None
    /\ UNCHANGED <<doc, order, lib, style, heading, bibcc, bib, edits, everCited, midEdit, Rest>>

\* markers that running Cite handlers may still insert
PendingInserts ==
    Cardinality({t \in Tasks : tasks[t].op = "cite" /\ tasks[t].pc \notin PipelinePcs \cup {"scan"}})

\* the Cite button of a Library row: getLibrary, getStyle
StartCite(t, id) ==
    /\ CanStart(t)
    /\ id \in lib
    /\ Len(doc) + PendingInserts < MaxMarkers
    /\ tasks' = [tasks EXCEPT ![t] = [Idle EXCEPT !.op = "cite", !.pc = "e1", !.id = id, !.sty = style]]
    /\ ops' = ops - 1
    /\ ev' = None
    /\ UNCHANGED <<doc, order, lib, style, heading, bibcc, bib, edits, everCited, midEdit, Rest>>

\* ensureCitedIndex: order = await getCitedOrder(); pos = order.indexOf(id);
\* with pos >= 0 it returns pos + 1 at once
EnsureRead(t) ==
    /\ tasks[t].pc = "e1"
    /\ tasks' = [tasks EXCEPT ![t].pc = IF Contains(order, tasks[t].id) THEN "s1" ELSE "e2"]
    /\ ev' = IF Contains(order, tasks[t].id)
             THEN [kind |-> "ensured", id |-> tasks[t].id, ret |-> IndexOf(order, tasks[t].id) + 1]
             ELSE None
    /\ UNCHANGED <<doc, order, lib, style, heading, bibcc, bib, ops, edits, everCited, midEdit, Rest>>

\* markCited: order = await getCitedOrder()
MarkRead(t) ==
    /\ tasks[t].pc \in {"e2", "s2"}
    /\ tasks' = [tasks EXCEPT ![t].pc = IF tasks[t].pc = "e2" THEN "e3" ELSE "s3", ![t].ord = order]
    /\ ev' = None
    /\ UNCHANGED <<doc, order, lib, style, heading, bibcc, bib, ops, edits, everCited, midEdit, Rest>>

\* markCited: if (!order.includes(id)) { order.push(id); await setCitedOrder(order) }
MarkWrite(t) ==
    /\ tasks[t].pc \in {"e3", "s3"}
    /\ order' = markCited(tasks[t].ord, order, tasks[t].id)
    /\ tasks' = Dirty([tasks EXCEPT ![t].pc = IF tasks[t].pc = "e3" THEN "e4" ELSE "s4", ![t].ord = <<>>], t)
    /\ ev' = None
    /\ UNCHANGED <<doc, lib, style, heading, bibcc, bib, ops, edits, everCited, midEdit, Rest>>

\* ensureCitedIndex after markCited: order = await getCitedOrder();
\* pos = order.indexOf(id); return pos + 1
EnsureReread(t) ==
    /\ tasks[t].pc = "e4"
    /\ tasks' = [tasks EXCEPT ![t].pc = "s1"]
    /\ ev' = [kind |-> "ensured", id |-> tasks[t].id, ret |-> IndexOf(order, tasks[t].id) + 1]
    /\ UNCHANGED <<doc, order, lib, style, heading, bibcc, bib, ops, edits, everCited, midEdit, Rest>>

\* simpleInsert: order = await getCitedOrder(); pos = order.indexOf(e.id)
InsertRead(t) ==
    /\ tasks[t].pc = "s1"
    /\ tasks' = [tasks EXCEPT ![t].pc = IF Contains(order, tasks[t].id) THEN "ins" ELSE "s2",
                              ![t].idx = IndexOf(order, tasks[t].id) + 1]
    /\ ev' = None
    /\ UNCHANGED <<doc, order, lib, style, heading, bibcc, bib, ops, edits, everCited, midEdit, Rest>>

\* simpleInsert after markCited: order = await getCitedOrder(); idx = pos >= 0 ? pos + 1 : 1
InsertReread(t) ==
    /\ tasks[t].pc = "s4"
    /\ tasks' = [tasks EXCEPT ![t].pc = "ins",
                              ![t].idx = IF Contains(order, tasks[t].id) THEN IndexOf(order, tasks[t].id) + 1 ELSE 1]
    /\ ev' = None
    /\ UNCHANGED <<doc, order, lib, style, heading, bibcc, bib, ops, edits, everCited, midEdit, Rest>>

\* what the host does with each kind of insertion: a content control at the
\* selection, a content control in a new paragraph at the end of the body, plain
\* text (TRUE: it accepts, FALSE: it rejects)
HostAnswers == [selection : BOOLEAN, end : BOOLEAN, text : BOOLEAN]

\* the Word.run batch of simpleInsert against such a host: the insertions it
\* tries, in order, and how it ends
simpleInsertRun(host) ==
    IF host.selection THEN [tried |-> <<"selection">>, out |-> "selection"]
    ELSE IF host.end THEN [tried |-> <<"selection", "end">>, out |-> "end"]
    ELSE [tried |-> <<"selection", "end">>, out |-> "failed"]

\* simpleInsert, Word.run: a control at the selection (position k), or, when the
\* host rejects that, in a new paragraph at the end of the body
InsertControl(t, k) ==
    /\ tasks[t].pc = "ins"
    /\ Len(doc) < MaxMarkers
    /\ k \in 1..(Len(doc) + 1)
    /\ \E host \in HostAnswers :
          /\ simpleInsertRun(host).out \in {"selection", "end"}
          /\ simpleInsertRun(host).out = "end" => k = Len(doc) + 1
          /\ ev' = [kind |-> "inserted", out |-> simpleInsertRun(host).out, tried |-> simpleInsertRun(host).tried]
    /\ doc' = InsertAt(doc, k, Single(tasks[t].id, formatInText(Entry(tasks[t].id), tasks[t].sty, tasks[t].idx)))
    /\ everCited' = everCited \cup {tasks[t].id}
    /\ tasks' = Dirty([tasks EXCEPT ![t].pc = "scan", ![t].idx = 0], t)
    /\ UNCHANGED <<order, lib, style, heading, bibcc, bib, ops, edits, midEdit, Rest>>

\* simpleInsert, Word.run: the host rejects both insertions; the handler's catch
\* reports the failure and the handler ends
InsertRejected(t) ==
    /\ tasks[t].pc = "ins"
    /\ tasks' = [tasks EXCEPT ![t] = Idle]
    /\ \E host \in HostAnswers :
          /\ simpleInsertRun(host).out = "failed"
          /\ ev' = [kind |-> "insertFailed", id |-> tasks[t].id, textOk |-> host.text,
                    tried |-> simpleInsertRun(host).tried]
    /\ UNCHANGED <<doc, order, lib, style, heading, bibcc, bib, ops, edits, everCited, midEdit, Rest>>

\* selections: lo..hi over the controls, hi = lo - 1 for a caret
Selections == {<<lo, hi>> \in (1..(MaxMarkers + 1)) \X (0..MaxMarkers) : hi >= lo - 1 /\ hi <= Len(doc)}

\* onMergeSelectedCitations: the merge batch, then the refresh is entered
MergeSelected(t, lo, hi) ==
    /\ CanStart(t)
    /\ <<lo, hi>> \in Selections
    /\ \E enum \in Perms(Len(doc)) :
         doc' = onMergeBatch(doc, enum, lo, hi, style, lib, order)
    /\ tasks' = Dirty([tasks EXCEPT ![t] = [Idle EXCEPT !.op = "merge", !.pc = "scan",
                                               !.noop = Cardinality(MergePicked(doc, lo, hi)) < 2]], t)
    /\ ops' = ops - 1
    /\ ev' = [kind |-> "merge", picked |-> MergePicked(doc, lo, hi)]
    /\ lastMerge' = IF Cardinality(MergePicked(doc, lo, hi)) < 2 THEN lastMerge
                    ELSE [ids |-> Flatten([i \in 1..Len(doc) |->
                                             IF i \in MergePicked(doc, lo, hi) THEN doc[i].ids ELSE <<>>]),
                          sty |-> style]
    /\ UNCHANGED <<order, lib, style, heading, bibcc, bib, edits, everCited, midEdit,
                   slots, scanIn, scanOut, styleTimer, Pure>>

\* onUnmergeSelectedCitation with a group control g inside the selection
UnmergeSelected(t, lo, hi, g) ==
    /\ CanStart(t)
    /\ <<lo, hi>> \in Selections
    /\ g \in UnmergeTargets(doc, lo, hi)
    /\ Len(doc) - 1 + Len(validIds(doc[g].ids, lib)) <= MaxMarkers
    /\ doc' = onUnmergeBatch(doc, g, lib)
    /\ tasks' = Dirty([tasks EXCEPT ![t] = [Idle EXCEPT !.op = "unmerge", !.pc = "scan"]], t)
    /\ ops' = ops - 1
    /\ ev' = [kind |-> "unmerge", g |-> g, ids |-> doc[g].ids]
    /\ UNCHANGED <<order, lib, style, heading, bibcc, bib, edits, everCited, midEdit, Rest>>

\* onUnmergeSelectedCitation with no group control inside the selection:
\* the batch returns after its message, the handler goes on to the refresh
UnmergeNothing(t, lo, hi) ==
    /\ CanStart(t)
    /\ <<lo, hi>> \in Selections
    /\ UnmergeTargets(doc, lo, hi) = {}
    /\ tasks' = [tasks EXCEPT ![t] = [Idle EXCEPT !.op = "unmerge", !.pc = "scan", !.noop = TRUE]]
    /\ ops' = ops - 1
    /\ ev' = None
    /\ UNCHANGED <<doc, order, lib, style, heading, bibcc, bib, edits, everCited, midEdit, Rest>>

\* onResetNumbering, confirmed: clearCitedOrder, then the refresh
ResetNumbering(t) ==
    /\ CanStart(t)
    /\ order' = <<>>
    /\ tasks' = Dirty([tasks EXCEPT ![t] = [Idle EXCEPT !.op = "reset", !.pc = "scan"]], t)
    /\ ops' = ops - 1
    /\ ev' = None
    /\ UNCHANGED <<doc, lib, style, heading, bibcc, bib, edits, everCited, midEdit, Rest>>

\* onClearLibraryClick, confirmation declined: if (!ok) return
ClearDeclined(t) ==
    /\ CanStart(t)
    /\ ops' = ops - 1
    /\ ev' = [kind |-> "declined"]
    /\ UNCHANGED <<doc, order, lib, style, heading, bibcc, bib, tasks, edits, everCited, midEdit, Rest>>

\* onClearLibraryClick, confirmed
StartClear(t) ==
    /\ CanStart(t)
    /\ tasks' = [tasks EXCEPT ![t] = [Idle EXCEPT !.op = "clear", !.pc = "del", !.clean = TRUE, !.noEdit = TRUE]]
    /\ ops' = ops - 1
    /\ ev' = None
    /\ UNCHANGED <<doc, order, lib, style, heading, bibcc, bib, edits, everCited, midEdit, Rest>>

\* deleteAllWordRefContentControlsEverywhere: each delete the host rejects is
\* caught and its control stays (keep: the positions that stay)
ClearDelete(t, keep) ==
    /\ tasks[t].pc = "del"
    /\ keep \subseteq 1..Len(doc)
    /\ doc' = SelectSeq([i \in 1..Len(doc) |-> IF i \in keep THEN doc[i] ELSE [kind |-> "gone"]],
                        LAMBDA c : c.kind # "gone")
    /\ tasks' = Dirty([tasks EXCEPT ![t].pc = "clib"], t)
    /\ ev' = None
    /\ UNCHANGED <<order, lib, style, heading, bibcc, bib, ops, edits, everCited, midEdit, Rest>>

\* clearLibrary
ClearLib(t) ==
    /\ tasks[t].pc = "clib"
    /\ lib' = {}
    /\ tasks' = Dirty([tasks EXCEPT ![t].pc = "cord"], t)
    /\ ev' = None
    /\ UNCHANGED <<doc, order, style, heading, bibcc, bib, ops, edits, everCited, midEdit, Rest>>

\* clearCitedOrder
ClearOrder(t) ==
    /\ tasks[t].pc = "cord"
    /\ order' = <<>>
    /\ tasks' = Dirty([tasks EXCEPT ![t].pc = "cbib"], t)
    /\ ev' = None
    /\ UNCHANGED <<doc, lib, style, heading, bibcc, bib, ops, edits, everCited, midEdit, Rest>>

\* updateBibliography([], getStyle())
ClearBib(t) ==
    /\ tasks[t].pc = "cbib"
    /\ heading' = TRUE
    /\ bibcc' = TRUE
    /\ bib' = BibWrite(bib, BibLines(<<>>, style))
    /\ tasks' = Dirty([tasks EXCEPT ![t] = Idle], t)
    /\ ev' = [kind |-> "cleared", clean |-> tasks[t].clean /\ tasks[t].noEdit]
    /\ UNCHANGED <<doc, order, lib, style, ops, edits, everCited, midEdit, Rest>>

\* onAddOnly for an entry that is not in the Library: upsertEntry
AddEntry(id) ==
    /\ ops > 0
    /\ id \notin lib
    /\ lib' = lib \cup {id}
    /\ tasks' = Edited(tasks)
    /\ ops' = ops - 1
    /\ ev' = None
    /\ UNCHANGED <<doc, order, style, heading, bibcc, bib, edits, everCited, midEdit, Rest>>

\* the user picks style s in the select, which getStyle reads from then on;
\* onStyleChanged re-arms the debounce timer.  The select is disabled while a
\* style refresh is in flight
StyleSelect(s) ==
    /\ ops > 0
    /\ s \in Styles \ {style}
    /\ \A x \in Tasks : tasks[x].op # "style"
    /\ style' = s
    /\ styleTimer' = TRUE
    /\ tasks' = Edited(tasks)
    /\ ops' = ops - 1
    /\ ev' = None
    /\ UNCHANGED <<doc, order, lib, heading, bibcc, bib, edits, everCited, midEdit, Fixed>>

\* the debounce timer of onStyleChanged fires: nothing if styleChangeInFlight,
\* else the cursor moves to the end and the refresh is entered
StyleTimer(t) ==
    /\ styleTimer
    /\ FreeSlot(t)
    /\ styleTimer' = FALSE
    /\ tasks' = IF inFlight.style THEN tasks
                ELSE [tasks EXCEPT ![t] = [Idle EXCEPT !.op = "style", !.pc = "scan"]]
    /\ inFlight' = raiseFlag(inFlight, "style")
    /\ ev' = None
    /\ UNCHANGED <<doc, order, lib, style, heading, bibcc, bib, ops, edits, everCited, midEdit,
                   slots, scanIn, scanOut, lastMerge, compIn, compOut, deb>>

---------------------------------------------------------------------------
(* onStyleChanged with its clock *)

\* setTimeout without the clearTimeout before it
armTimer_keep(timers) == timers \cup {DebounceTicks}

\* if (styleChangeTimer) clearTimeout(styleChangeTimer); styleChangeTimer = setTimeout(.., 150)
armTimer(timers) == {DebounceTicks}

\* the add-in with a document and nobody but the style select acting on it
InitStyle ==
    InitWith({<<Single("A", <<>>)>>, <<[kind |-> "group", ids |-> <<"B", "A">>, text |-> <<>>]>>},
             Styles, {Ids}, {"t1"}, MaxStyleEvents, 0)

\* a change event of the style select (enabled: no style refresh in flight);
\* a timeout that is due runs before the next event is dispatched
StyleChanged(s) ==
    /\ ops > 0
    /\ s \in Styles \ {style}
    /\ \A x \in Tasks : tasks[x].op # "style"
    /\ 0 \notin deb.timers
    /\ style' = s
    /\ deb' = [timers |-> armTimer(deb.timers), since |-> 0,
               burst |-> IF deb.timers = {} THEN 1 ELSE deb.burst + 1, runs |-> 0]
    /\ tasks' = Edited(tasks)
    /\ ops' = ops - 1
    /\ ev' = None
    /\ UNCHANGED <<doc, order, lib, heading, bibcc, bib, edits, everCited, midEdit, styleTimer,
                   slots, scanIn, scanOut, lastMerge, compIn, compOut, inFlight>>

\* one tick of the clock while a timeout is pending and none is due
Tick ==
    /\ deb.timers # {}
    /\ 0 \notin deb.timers
    /\ deb' = [deb EXCEPT !.timers = {k - 1 : k \in deb.timers},
                          !.since = IF deb.since < DebounceTicks THEN deb.since + 1 ELSE deb.since]
    /\ ev' = None
    /\ UNCHANGED <<doc, order, lib, style, heading, bibcc, bib, tasks, ops, edits, everCited, midEdit,
                   styleTimer, slots, scanIn, scanOut, lastMerge, compIn, compOut, inFlight>>

\* the timeout callback: nothing if styleChangeInFlight, else the select is
\* disabled, the cursor moves to the end and the refresh is entered
DebounceFires(t) ==
    /\ 0 \in deb.timers
    /\ t \in slots
    /\ IF inFlight.style
       THEN /\ tasks' = tasks
            /\ deb' = [deb EXCEPT !.timers = @ \ {0}]
       ELSE /\ tasks[t].pc = "idle"
            /\ tasks' = [tasks EXCEPT ![t] = [Idle EXCEPT !.op = "style", !.pc = "scan"]]
            /\ deb' = [deb EXCEPT !.timers = @ \ {0}, !.runs = @ + 1]
    /\ inFlight' = raiseFlag(inFlight, "style")
    /\ ev' = None
    /\ UNCHANGED <<doc, order, lib, style, heading, bibcc, bib, ops, edits, everCited, midEdit,
                   styleTimer, slots, scanIn, scanOut, lastMerge, compIn, compOut>>

\* the steps of the style select and of the refresh it starts
NextStyle ==
    \/ \E s \in Styles : StyleChanged(s)
    \/ Tick
    \/ \E t \in Tasks : DebounceFires(t)
    \/ \E t \in Tasks : ScanStep(t)
    \/ \E t \in Tasks : SetOrderStep(t)
    \/ \E t \in Tasks : RerenderStep(t)
    \/ \E t \in Tasks : BibStep(t)
    \/ \E t \in Tasks : GroupStep(t)

---------------------------------------------------------------------------
(* The guarded refreshes and the errors of the host *)

\* the add-in with a document, the style select and callers of safeRefreshAll
InitHost ==
    InitWith({<<Single("A", <<>>)>>,
              <<Single("A", <<>>), Single("B", <<>>), [kind |-> "group", ids |-> <<"B", "A">>, text |-> <<>>]>>},
             Styles, {Ids}, Tasks, MaxHostOps, 0)

\* safeRefreshAll: if (opInFlight) return; opInFlight = true; try { .. }
SafeRefreshAll(t) ==
    /\ CanStart(t)
    /\ tasks' = IF inFlight.op THEN tasks ELSE Begin(t, "safe", "scan")
    /\ inFlight' = raiseFlag(inFlight, "safe")
    /\ ops' = ops - 1
    /\ ev' = None
    /\ UNCHANGED <<doc, order, lib, style, heading, bibcc, bib, edits, everCited, midEdit, styleTimer,
                   slots, scanIn, scanOut, lastMerge, compIn, compOut, deb>>

\* an awaited call of a guarded refresh rejects with a host error before it has
\* written anything: the finally of safeRefreshAll runs, or guard catches the
\* error and the callback of onStyleChanged goes on after it
HostError(t) ==
    /\ tasks[t].op \in GuardedOps
    /\ tasks[t].pc \in PipelinePcs \cup {"scan"}
    /\ tasks' = [tasks EXCEPT ![t] = Idle]
    /\ inFlight' = releaseFlag(inFlight, tasks[t].op, TRUE)
    /\ ev' = [kind |-> "refreshFailed", op |-> tasks[t].op, at |-> tasks[t].pc]
    /\ UNCHANGED <<doc, order, lib, style, heading, bibcc, bib, ops, edits, everCited, midEdit, styleTimer,
                   slots, scanIn, scanOut, lastMerge, compIn, compOut, deb>>

\* rerenderAllCitations: the host rejects the insertText of the single control
\* at place k, so ctx.sync() rejects: the controls before it have their new
\* text, the others keep theirs, and the error leaves
\* refreshNumbersAndBibliography before updateBibliography
RerenderFails(t, k) ==
    /\ tasks[t].op \in GuardedOps
    /\ tasks[t].pc = "rer"
    /\ k \in 1..Len(doc)
    /\ doc[k].kind = "cite" /\ doc[k].ids[1] \in tasks[t].tlib
    /\ doc' = [i \in 1..Len(doc) |->
                 IF i < k THEN rerenderAllCitations(doc, tasks[t].sty, tasks[t].u, tasks[t].tlib)[i]
                 ELSE doc[i]]
    /\ tasks' = Dirty([tasks EXCEPT ![t] = Idle], t)
    /\ inFlight' = releaseFlag(inFlight, tasks[t].op, TRUE)
    /\ ev' = [kind |-> "rewriteFailed", at |-> k, clean |-> tasks[t].clean /\ tasks[t].noEdit]
    /\ UNCHANGED <<order, lib, style, heading, bibcc, bib, ops, edits, everCited, midEdit, styleTimer,
                   slots, scanIn, scanOut, lastMerge, compIn, compOut, deb>>

\* rerenderGroupCitations: the host rejects the insertText of the group control
\* at place k
GroupFails(t, k) ==
    /\ tasks[t].op \in GuardedOps
    /\ tasks[t].pc = "grp"
    /\ k \in 1..Len(doc)
    /\ doc[k].kind = "group"
    /\ doc' = [i \in 1..Len(doc) |->
                 IF i < k THEN rerenderGroupCitations(doc, style, lib, order)[i] ELSE doc[i]]
    /\ tasks' = Dirty([tasks EXCEPT ![t] = Idle], t)
    /\ inFlight' = releaseFlag(inFlight, tasks[t].op, TRUE)
    /\ ev' = [kind |-> "rewriteFailed", at |-> k, clean |-> tasks[t].clean /\ tasks[t].noEdit]
    /\ UNCHANGED <<order, lib, style, heading, bibcc, bib, ops, edits, everCited, midEdit, styleTimer,
                   slots, scanIn, scanOut, lastMerge, compIn, compOut, deb>>

NextHost ==
    \/ \E t \in Tasks : SafeRefreshAll(t)
    \/ \E s \in Styles : StyleSelect(s)
    \/ \E t \in Tasks : StyleTimer(t)
    \/ \E t \in Tasks : ScanStep(t)
    \/ \E t \in Tasks : SetOrderStep(t)
    \/ \E t \in Tasks : RerenderStep(t)
    \/ \E t \in Tasks : BibStep(t)
    \/ \E t \in Tasks : GroupStep(t)
    \/ \E t \in Tasks : HostError(t)
    \/ \E t \in Tasks, k \in 1..MaxMarkers : RerenderFails(t, k)
    \/ \E t \in Tasks, k \in 1..MaxMarkers : GroupFails(t, k)

---------------------------------------------------------------------------
(* The user edits the document *)

UserEdit(d) ==
    /\ edits > 0
    /\ doc' = d
    /\ tasks' = Edited(tasks)
    /\ midEdit' = (midEdit \/ Refreshing # {})
    /\ edits' = edits - 1
    /\ ev' = None
    /\ UNCHANGED <<order, lib, style, heading, bibcc, bib, ops, everCited, Rest>>

UserDelete(i) == i \in 1..Len(doc) /\ UserEdit(RemoveAt(doc, i))

UserMove(i, j) ==
    /\ i \in 1..Len(doc) /\ j \in 1..Len(doc) /\ i # j
    /\ UserEdit(InsertAt(RemoveAt(doc, i), j, doc[i]))

\* copy and paste of a citation control
UserPaste(i, k) ==
    /\ i \in 1..Len(doc) /\ k \in 1..(Len(doc) + 1)
    /\ Len(doc) + PendingInserts < MaxMarkers
    /\ UserEdit(InsertAt(doc, k, doc[i]))

---------------------------------------------------------------------------

\* the steps that handlers run one at a time can take
NextAlone ==
    \/ \E t \in Tasks : ScanStep(t)
    \/ \E t \in Tasks : SetOrderStep(t)
    \/ \E t \in Tasks : RerenderStep(t)
    \/ \E t \in Tasks : BibStep(t)
    \/ \E t \in Tasks : GroupStep(t)
    \/ \E t \in Tasks : StartUpdate(t)
    \/ \E t \in Tasks, id \in Ids : StartCite(t, id)
    \/ \E t \in Tasks : EnsureRead(t)
    \/ \E t \in Tasks : MarkRead(t)
    \/ \E t \in Tasks : MarkWrite(t)
    \/ \E t \in Tasks : EnsureReread(t)
    \/ \E t \in Tasks : InsertRead(t)
    \/ \E t \in Tasks, k \in 1..MaxMarkers : InsertControl(t, k)
    \/ \E t \in Tasks : InsertRejected(t)
    \/ \E t \in Tasks, lo \in 1..(MaxMarkers + 1), hi \in 0..MaxMarkers : MergeSelected(t, lo, hi)
    \/ \E t \in Tasks, lo \in 1..(MaxMarkers + 1), hi \in 0..MaxMarkers, g \in 1..MaxMarkers :
          UnmergeSelected(t, lo, hi, g)
    \/ \E t \in Tasks, lo \in 1..(MaxMarkers + 1), hi \in 0..MaxMarkers : UnmergeNothing(t, lo, hi)
    \/ \E t \in Tasks : ResetNumbering(t)
    \/ \E t \in Tasks : ClearDeclined(t)
    \/ \E t \in Tasks : StartClear(t)
    \/ \E t \in Tasks, keep \in SUBSET (1..MaxMarkers) : ClearDelete(t, keep)
    \/ \E t \in Tasks : ClearLib(t)
    \/ \E t \in Tasks : ClearOrder(t)
    \/ \E t \in Tasks : ClearBib(t)
    \/ \E id \in Ids : AddEntry(id)
    \/ \E s \in Styles : StyleSelect(s)
    \/ \E t \in Tasks : StyleTimer(t)
    \/ \E i \in 1..MaxMarkers : UserDelete(i)
    \/ \E i, j \in 1..MaxMarkers : UserMove(i, j)
    \/ \E i, k \in 1..(MaxMarkers + 1) : UserPaste(i, k)

\* with overlapping handlers simpleInsert can find its identifier missing from
\* the order that ensureCitedIndex stored, and take its own markCited branch
Next ==
    \/ NextAlone
    \/ \E t \in Tasks : InsertReread(t)

Spec == Init /\ [][NextAlone]_vars

SpecConc == InitConc /\ [][Next]_vars

SpecScan == InitScan /\ [][ScanAdd \/ ScanDoc]_vars

SpecComp == InitComp /\ [][(\E n \in 1..MaxIdx : CompAdd(n)) \/ CompRun]_vars

SpecMark == InitMark /\ [][\E id \in BibIds : MarkCited(id)]_vars

\* time passes and a due timeout runs: window.setTimeout
SpecStyle ==
    /\ InitStyle
    /\ [][NextStyle]_vars
    /\ WF_vars(Tick)
    /\ WF_vars(\E t \in Tasks : DebounceFires(t))

SpecHost == InitHost /\ [][NextHost]_vars

SpecFmt == InitFmt /\ [][(\E id \in BibIds : FmtCite(id)) \/ FmtRefresh]_vars

SpecAdj == InitScan /\ [][(\E sh \in ItemShapes : AdjAdd(sh)) \/ (\E sel \in 1..MaxItems : AdjRun(sel))]_vars

SpecHead == InitScan /\ [][(\E text \in ParaTexts : HeadAdd(text)) \/ HeadRun]_vars

SpecAdd == InitScan /\ [][(\E e \in PastedEntries : AddPaste(e)) \/ (\E store \in Stores : AddRun(store))]_vars

\* updateBibliography call by call, one step per ctx.sync().  The body of the
\* document is scanIn: the "References" paragraphs and the bibliography content
\* controls in reading order, each with the name of what made it (by: a handler,
\* or "old" for an earlier session).  A call holds the entries it was given (u)
\* and the handles its batch has got so far (ord: the heading, then the block)
BodiesAtStart ==
    {<<>>,
     <<[kind |-> "heading", by |-> "old"]>>,
     <<[kind |-> "heading", by |-> "old"],
       [kind |-> "block", by |-> "old", lines |-> BibLines(<<"A">>, "ieee")]>>}

\* the cited entries that a refresh hands to updateBibliography
CitedLists == {<<>>, <<"A">>, <<"B", "A">>}

\* the first item of that kind in the body ("" when there is none)
FirstOfKind(body, kind) ==
    LET S == {i \in 1..Len(body) : body[i].kind = kind}
    IN IF S = {} THEN "" ELSE body[CHOOSE i \in S : \A j \in S : i <= j].by

\* refreshes that call updateBibliography one at a time (one slot) or
\* overlapping (two slots)
InitBlock ==
    /\ scanIn \in BodiesAtStart
    /\ scanOut = NotScanned
    /\ slots \in {{"t1"}, Tasks}
    /\ ops = MaxRefreshes
    /\ doc = <<>> /\ order = <<>> /\ bib = <<>> /\ heading = FALSE /\ bibcc = FALSE
    /\ lib = Ids /\ style = "ieee"
    /\ tasks = [t \in Tasks |-> Idle]
    /\ edits = 0
    /\ everCited = {} /\ midEdit = FALSE /\ ev = None /\ styleTimer = FALSE
    /\ lastMerge = NoMerge
    /\ compIn = {} /\ compOut = NotCompressed
    /\ deb = NoDebounce
    /\ inFlight = NoFlight

\* updateBibliography(entries): paras.load("items,text"); await ctx.sync();
\* h = paras.items.find(p => p.text.trim().toLowerCase() === "references")
FindHeading(t, entries) ==
    /\ CanStart(t)
    /\ tasks' = [tasks EXCEPT ![t] = [Idle EXCEPT !.op = "bib", !.u = entries,
                     !.pc = IF FirstOfKind(scanIn, "heading") = "" THEN "bi" ELSE "bc",
                     !.ord = <<FirstOfKind(scanIn, "heading")>>]]
    /\ ops' = ops - 1
    /\ ev' = None
    /\ UNCHANGED <<doc, order, lib, style, heading, bibcc, bib, edits, everCited, midEdit, Rest>>

\* if (!h) { h = body.insertParagraph("References", "End"); ..; await ctx.sync() }
InsertHeading(t) ==
    /\ tasks[t].pc = "bi"
    /\ scanIn' = Append(scanIn, [kind |-> "heading", by |-> t])
    /\ tasks' = [tasks EXCEPT ![t].pc = "bc", ![t].ord = <<t>>]
    /\ ev' = None
    /\ UNCHANGED <<doc, order, lib, style, heading, bibcc, bib, ops, edits, everCited, midEdit,
                   slots, scanOut, lastMerge, Pure, styleTimer>>

\* getOrCreateBibCC: existing = getByTag("wordref-bibliography"); existing.load("items");
\* await ctx.sync(); if (existing.items.length > 0) return existing.items[0]
FindBlock(t) ==
    /\ tasks[t].pc = "bc"
    /\ tasks' = [tasks EXCEPT ![t].pc = "bw", ![t].ord = Append(@, FirstOfKind(scanIn, "block"))]
    /\ ev' = None
    /\ UNCHANGED <<doc, order, lib, style, heading, bibcc, bib, ops, edits, everCited, midEdit, Rest>>

\* the last batch: with no block found, a new content control in a new paragraph
\* after the heading; bibCC.insertText(bibText, "Replace"); await ctx.sync()
WriteBlock(t) ==
    /\ tasks[t].pc = "bw"
    /\ LET h == tasks[t].ord[1]
           b == tasks[t].ord[2]
           lines == BibLines(tasks[t].u, style)
           at == CHOOSE i \in 1..Len(scanIn) : scanIn[i].kind = "heading" /\ scanIn[i].by = h
       IN /\ scanIn' = IF b = ""
                       THEN InsertAt(scanIn, at + 1, [kind |-> "block", by |-> t, lines |-> BibWrite(<<>>, lines)])
                       ELSE [i \in 1..Len(scanIn) |->
                               IF scanIn[i].kind = "block" /\ scanIn[i].by = b
                               THEN [scanIn[i] EXCEPT !.lines = BibWrite(@, lines)] ELSE scanIn[i]]
          /\ ev' = [kind |-> "bibWritten", lines |-> lines]
    /\ tasks' = [tasks EXCEPT ![t] = Idle]
    /\ UNCHANGED <<doc, order, lib, style, heading, bibcc, bib, ops, edits, everCited, midEdit,
                   slots, scanOut, lastMerge, Pure, styleTimer>>

SpecBlock ==
    InitBlock /\ [][\E t \in Tasks : \/ \E entries \in CitedLists : FindHeading(t, entries)
                                      \/ InsertHeading(t)
                                      \/ FindBlock(t)
                                      \/ WriteBlock(t)]_vars

SpecBib == InitBib /\ [][(\E id \in BibIds : BibAdd(id)) \/ BibRefresh]_vars

---------------------------------------------------------------------------
(* Properties *)

AllIdle == \A t \in Tasks : tasks[t].pc = "idle"

\* the identifiers of the markers of d in reading order, groups flattened
RawIds(d) == Flatten([i \in 1..Len(d) |-> d[i].ids])

\* where x first occurs in s
FirstAt(s, x) == CHOOSE i \in 1..Len(s) : s[i] = x /\ \A j \in 1..(i - 1) : s[j] # x

\* o is the first-appearance order of the markers of d
IsCanonicalOrder(o, d) ==
    /\ Range(o) = Range(RawIds(d))
    /\ \A i, j \in 1..Len(o) : i < j => FirstAt(RawIds(d), o[i]) < FirstAt(RawIds(d), o[j])

\* C1: when a refresh (refreshNumbersAndBibliography followed by
\* rerenderGroupCitations) has run with nothing else writing and no user input,
\* running the pipeline once more changes neither CitedOrder, nor the text of any
\* single or group marker, nor the bibliography content.
C1_RefreshIdempotent ==
    (ev.kind = "refreshDone" /\ ev.clean) =>
        LET again == RefreshAll(doc, bib, style, lib)
        IN again.order = order /\ again.doc = doc /\ again.bib = bib

\* a refresh that ran alone has just ended on a document with a single marker, a
\* group marker, two cited entries and a bibliography
C1_Witness ==
    /\ ev.kind = "refreshDone" /\ ev.clean
    /\ \E i, j \in 1..Len(doc) : doc[i].kind = "cite" /\ doc[j].kind = "group"
    /\ Len(order) = 2
    /\ bib # <<>>

\* C2: after a refresh that completed with no user input during it, and with no
\* handler left running, the stored CitedOrder is the first-appearance order of
\* the identifiers of the markers in reading order, groups flattened, and holds
\* no identifier without a marker.
C2_OrderIsCanonical ==
    (ev.kind = "refreshDone" /\ ev.noEdit /\ AllIdle) => IsCanonicalOrder(order, doc)

\* C3: at most one handler is inside the refresh pipeline at a time.
C3_SingleFlight == Cardinality(Refreshing) <= 1

\* what a refresh leaves when it repairs the document: the canonical order, every
\* marker with a Library entry showing its label under that order and the
\* current style, the bibliography listing that order
IsRepaired ==
    /\ IsCanonicalOrder(order, doc)
    /\ \A i \in 1..Len(doc) :
         /\ (doc[i].kind = "cite" /\ doc[i].ids[1] \in lib) =>
               doc[i].text = formatInText(Entry(doc[i].ids[1]), style, IndexOf(order, doc[i].ids[1]) + 1)
         /\ doc[i].kind = "group" => doc[i].text = formatGroupFromIds(doc[i].ids, style, lib, order)
    /\ bib = BibLines(CitedEntries(order, lib), style)

\* C4: once a user edit has happened during a refresh, a later refresh that runs
\* to completion with no user input during it, and after which no handler is
\* left running, leaves CitedOrder, the marker texts and the bibliography repaired.
C4_NextRefreshRepairs ==
    (midEdit /\ ev.kind = "refreshDone" /\ ev.noEdit /\ AllIdle) => IsRepaired

\* C5: the stored CitedOrder holds every identifier at most once, whatever the
\* interleaving of the handlers.
C5_NoDuplicates == \A i, j \in 1..Len(order) : order[i] = order[j] => i = j

\* two Cite handlers overlap on a document that never held a marker, and the
\* markCited of each has stored its identifier
C5_Witness ==
    /\ everCited = {}
    /\ Len(order) = 2
    /\ \A t \in Tasks : tasks[t].op = "cite"

\* C6: whenever no handler is running, every identifier of the stored CitedOrder
\* is the identifier of a marker that is or has been in the document, also after
\* a Cite whose insertion the host rejected.
C6_OrderedIdsHadMarker == AllIdle => Range(order) \subseteq everCited

\* the n-th control of the scanned document is a marker with identifiers
Scannable(n) == IsMarker(scanIn[n]) /\ scanIn[n].ids # <<>>

PlaceAfterMerge(i, picked, first) == i - Cardinality({p \in picked \ {first} : p < i})

\* C8: a merge of n >= 2 selected single markers leaves one group marker at the
\* place of the first selected marker, tagged with the n identifiers in document
\* order, duplicates kept; the other n-1 selected markers are gone; every other
\* marker keeps its kind and identifiers; no other group marker appears.
C8_MergeMakesOneGroup ==
    [][(ev'.kind = "merge" /\ Cardinality(ev'.picked) >= 2) =>
          LET picked == ev'.picked
              places == Ascending(picked)
              first == places[1]
          IN /\ Len(doc') = Len(doc) - (Cardinality(picked) - 1)
             /\ doc'[first].kind = "group"
             /\ doc'[first].ids = [k \in 1..Len(places) |-> doc[places[k]].ids[1]]
             /\ \A i \in (1..Len(doc)) \ picked :
                   /\ doc'[PlaceAfterMerge(i, picked, first)].kind = doc[i].kind
                   /\ doc'[PlaceAfterMerge(i, picked, first)].ids = doc[i].ids
             /\ Cardinality({i \in 1..Len(doc') : doc'[i].kind = "group"})
                  = Cardinality({i \in 1..Len(doc) : doc[i].kind = "group"}) + 1]_vars

\* two single markers of the same entry have just been merged into a group that
\* keeps both identifiers, next to a marker that was not selected
C8_Witness ==
    /\ ev.kind = "merge" /\ Cardinality(ev.picked) = 2
    /\ Len(doc) = 2
    /\ \E g \in 1..2 : doc[g].kind = "group" /\ Len(doc[g].ids) = 2 /\ doc[g].ids[1] = doc[g].ids[2]

\* the document d with the control at place g replaced by one single marker per
\* identifier of ids, in that order
WithSingles(d, g, ids) ==
    [i \in 1..(Len(d) - 1 + Len(ids)) |->
        IF i < g THEN [kind |-> d[i].kind, ids |-> d[i].ids]
        ELSE IF i < g + Len(ids) THEN [kind |-> "cite", ids |-> <<ids[i - g + 1]>>]
        ELSE [kind |-> d[i - Len(ids) + 1].kind, ids |-> d[i - Len(ids) + 1].ids]]

Tags(d) == [i \in 1..Len(d) |-> [kind |-> d[i].kind, ids |-> d[i].ids]]

Count(s, x) == Cardinality({i \in 1..Len(s) : s[i] = x})

\* the single markers that the unmerge of the group at place g has put in its
\* place: those of doc' that are not the markers of doc around the group
Yielded(d, g, after) ==
    IF Tags(after) = Tags(d) THEN <<>>
    ELSE RawIds(SubSeq(after, g, g + Len(after) - Len(d)))

\* an unmerge step of the group that the last merge made, both under a
\* numeric-class style
UnmergesLastMerge ==
    /\ ev'.kind = "unmerge"
    /\ lastMerge.ids # <<>>
    /\ ev'.ids = lastMerge.ids
    /\ isNumericStyle(lastMerge.sty) /\ isNumericStyle(style)

LineIsOf(line, id) == Contains(line, Entry(id).title)

LinesOf(b, id) == {i \in 1..Len(b) : LineIsOf(b[i], id)}

\* identifiers of CitedOrder that have no Library entry
Unresolved == Range(order) \ lib

\* C12: when CitedOrder holds an identifier with no Library entry while its
\* marker is in the document, the refresh runs to its end and the bibliography
\* has exactly one line for each identifier of CitedOrder that has a Library
\* entry and no line for the one without.
C12_BibOmitsUnresolved ==
    (ev.kind = "refreshDone" /\ ev.clean /\ Unresolved # {}) =>
        /\ Len(bib) = Cardinality(Range(order) \cap lib)
        /\ \A id \in Ids :
              Cardinality(LinesOf(bib, id)) = (IF id \in Range(order) \cap lib THEN 1 ELSE 0)

\* a refresh has just ended on a document that cites two entries, one of them
\* missing from the Library: the bibliography has the line of the other
C12_Witness ==
    /\ ev.kind = "refreshDone" /\ ev.clean
    /\ Len(order) = 2
    /\ Cardinality(Unresolved) = 1
    /\ Unresolved \subseteq IdsOf(doc)
    /\ Len(bib) = 1

\* the entry whose line this is
EntryOfLine(line) == CHOOSE id \in BibIds : LineIsOf(line, id)

\* place of a first-author surname in ascending order
SurnameRank(n) ==
    IF n = <<"Abe">> THEN 1 ELSE IF n = <<"Anon">> THEN 2 ELSE IF n = <<"Lund">> THEN 3
    ELSE IF n = <<"Moss">> THEN 4 ELSE 5

\* C13: after a refresh under an author-year style (apa, mla, harvard) the
\* bibliography lines are in ascending order of first-author surname whatever
\* the citation order; under a numeric-class style they are in CitedOrder
\* whatever the authors.
C13_BibOrder ==
    bibcc =>
        IF isNumericStyle(style)
        THEN [i \in 1..Len(bib) |-> EntryOfLine(bib[i])] = CitedEntries(order, lib)
        ELSE \A i, j \in 1..Len(bib) :
                i < j => SurnameRank(firstAuthorSurname(Entry(EntryOfLine(bib[i]))))
                           <= SurnameRank(firstAuthorSurname(Entry(EntryOfLine(bib[j]))))

\* C14: after a refresh completes, every single marker displays the in-text
\* label of its identifier under the current style with index equal to the
\* 1-based position of that identifier in CitedOrder; under a numeric-class style
\* every marker of the k-th first-seen entry displays "[k]".
C14_SinglesShowLabel ==
    (ev.kind = "refreshDone" /\ ev.clean) =>
        \A i \in 1..Len(doc) :
            doc[i].kind = "cite" =>
               /\ Contains(order, doc[i].ids[1])
               /\ doc[i].text = formatInText(Entry(doc[i].ids[1]), style, IndexOf(order, doc[i].ids[1]) + 1)
               /\ isNumericStyle(style) =>
                     doc[i].text = <<"[", ToString(FirstAt(order, doc[i].ids[1])), "]">>

\* the CitedOrder indices of the identifiers of a tag
IndicesOf(ids, ord) == {IndexOf(ord, ids[k]) + 1 : k \in 1..Len(ids)}

\* the in-text forms of the distinct identifiers of a tag, outer brackets off
StrippedForms(ids, sty, ord) ==
    LET uniq == uniqueInOrder(ids)
    IN [k \in 1..Len(uniq) |-> StripOuter(formatInText(Entry(uniq[k]), sty, IndexOf(ord, uniq[k]) + 1))]

\* C15: after a refresh under a numeric-class style every group marker displays
\* one bracket containing the range-compressed union of the CitedOrder indices of
\* all identifiers in its tag, computed from the order persisted by that same
\* refresh; under an author-year style it displays one parenthesis containing
\* each identifier's in-text form without its outer parentheses, joined by "; ".
C15_GroupsShowUnion ==
    (ev.kind = "refreshDone" /\ ev.clean) =>
        \A i \in 1..Len(doc) :
            doc[i].kind = "group" =>
               /\ Range(doc[i].ids) \subseteq Range(order)
               /\ doc[i].text =
                     (IF isNumericStyle(style)
                      THEN <<"[">> \o compressNumericList(Ascending(IndicesOf(doc[i].ids, order))) \o <<"]">>
                      ELSE <<"(">> \o JoinWith(StrippedForms(doc[i].ids, style, order), "; ") \o <<")">>)

\* the compressed text the specification describes for the set S: ascending,
\* joined by ",", a maximal run of 3 or more as a-b, of 2 as a,b, of 1 as a
RECURSIVE Compressed(_)
Compressed(S) ==
    IF S = {} THEN <<>>
    ELSE LET a == CHOOSE x \in S : \A y \in S : x <= y
             b == CHOOSE x \in S : (a..x) \subseteq S /\ (x + 1) \notin S
             run == IF b = a THEN <<ToString(a)>>
                    ELSE IF b = a + 1 THEN <<ToString(a), ",", ToString(b)>>
                    ELSE <<ToString(a), "-", ToString(b)>>
             rest == S \ (a..b)
         IN run \o (IF rest = {} THEN <<>> ELSE <<",">> \o Compressed(rest))

\* C16: the range compressor applied to a set of positive integers outputs them
\* in ascending order joined by ",", each maximal run of consecutive integers
\* written "a-b" when it has 3 or more members, "a,b" when it has 2 and "a" when
\* it has 1; so the merged label of {3,4} is "[3,4]" and of {3,4,5,6} "[3-6]".
C16_CompressorText ==
    compOut.done =>
        /\ compOut.numeric = <<"[">> \o Compressed(compIn) \o <<"]">>
        /\ compOut.group = <<"[">> \o Compressed(compIn) \o <<"]">>

\* C17: for every finite set S of positive integers, parseBracketIndices of the
\* bracketed text that a range compressor of the code (compressNumericList,
\* formatCitationGroup) produces for S yields exactly the members of S.
C17_ParseRoundTrip ==
    compOut.done =>
        /\ Range(compOut.parsedNumeric) = compIn
        /\ Range(compOut.parsedGroup) = compIn

\* the places of s that hold the first occurrence of an identifier
FirstPlaces(s) == {i \in 1..Len(s) : \A j \in 1..(i - 1) : s[j] # s[i]}

\* C18: uniqueInOrder keeps exactly the first occurrence of every identifier of
\* its input, in the relative order of those first occurrences, and applying
\* it to its own result changes nothing.
C18_CanonicalOrder ==
    scanOut.done =>
        LET firsts == Ascending(FirstPlaces(scanOut.out))
        IN /\ scanOut.uniq = [k \in 1..Len(firsts) |-> scanOut.out[firsts[k]]]
           /\ uniqueInOrder(scanOut.uniq) = scanOut.uniq

\* the scan returned B, A, A, B: identifiers repeat, and B comes first
C18_Witness ==
    /\ scanOut.done
    /\ scanOut.out = <<"B", "A", "A", "B">>
    /\ scanOut.uniq = <<"B", "A">>

\* C19: markCited(id) appends id at the end of CitedOrder when id is absent and
\* changes nothing when it is present; either way the previous order is a
\* prefix of the new one, so a second call changes nothing and no identifier
\* already in the order changes position.
C19_MarkCitedAppendsOnce ==
    ev.kind = "marked" =>
        LET before == ev.before
        IN /\ Contains(before, ev.id) => order = before
           /\ ~Contains(before, ev.id) => order = Append(before, ev.id)
           /\ Len(order) >= Len(before) /\ SubSeq(order, 1, Len(before)) = before
           /\ \A x \in Range(before) : IndexOf(order, x) = IndexOf(before, x)
           /\ markCited(order, order, ev.id) = order

\* markCited has just been called for an identifier that is in the middle of an
\* order of three
C19_Witness ==
    /\ ev.kind = "marked"
    /\ Len(ev.before) = 3
    /\ ev.before[2] = ev.id
    /\ order = ev.before

\* a step that enters the refresh of a style change
StyleRefreshStarts == \E t \in Tasks : tasks[t].op # "style" /\ tasks'[t].op = "style"

\* C20: a burst of style-change events, each less than the debounce window
\* after the previous one, triggers exactly one refresh; that refresh starts one
\* window after the last event of the burst and renders under the last
\* selected style.
C20_DebounceOneRefresh ==
    /\ [](deb.runs <= 1)
    /\ [][StyleRefreshStarts => (deb.since = DebounceTicks /\ deb'.timers = {})]_vars
    /\ [](\A t \in Tasks : (tasks[t].op = "style" /\ tasks[t].pc \in PipelinePcs) => tasks[t].sty = style)
    /\ []((ev.kind = "refreshDone" /\ deb.burst > 0) => RefreshAll(doc, bib, style, lib).doc = doc)
    /\ (deb.timers # {}) ~> (deb.timers = {} /\ deb.runs = 1)

\* a burst of three change events has been followed by one refresh, which has
\* just ended
C20_Witness ==
    /\ deb.burst = 3
    /\ deb.runs = 1
    /\ ev.kind = "refreshDone"

\* a guarded refresh of handler op is executing
Executing(op) == \E t \in Tasks : tasks[t].op = op /\ tasks[t].pc # "idle"

\* C21: a single-flight flag (opInFlight for safeRefreshAll, styleChangeInFlight
\* for the style-change refresh) is set before its refresh begins and cleared
\* when that refresh ends, whether it completes or fails with a host error: the
\* flag is true in every state where its refresh is executing and false in every
\* other state, so a failed refresh never blocks later requests.
C21_FlagsFollowRefresh ==
    /\ inFlight.op = Executing("safe")
    /\ inFlight.style = Executing("style")

\* a refresh of each kind has failed with a host error, and safeRefreshAll,
\* called again, is in its last step
C21_Witness ==
    /\ inFlight.failed = GuardedOps
    /\ inFlight.op
    /\ \E t \in Tasks : tasks[t].op = "safe" /\ tasks[t].pc = "grp"

\* a style identifier and the same identifier in another letter case
CaseVariants == {<<"APA", "apa">>, <<"Harvard", "harvard">>, <<"IEEE", "ieee">>, <<"Acs", "acs">>}

\* no style, or a style that is no style identifier in any letter case
Unrecognized(sty) == sty \notin AllStyles /\ \A p \in CaseVariants : p[1] # sty

\* what the refresh has left
Rendered == [doc |-> doc, order |-> order, bib |-> bib]

\* C22: style identifiers are matched case-insensitively, and an absent or
\* unrecognized style identifier behaves exactly as apa: the in-text labels, the
\* bibliography lines and the bibliography order that a refresh produces are
\* those it produces for apa.
C22_StyleDefaultsToApa ==
    ev.kind = "formatted" =>
        /\ \A p \in CaseVariants : style = p[1] => Rendered = RefreshAll(ev.doc, <<>>, p[2], lib)
        /\ Unrecognized(style) => Rendered = RefreshAll(ev.doc, <<>>, "apa", lib)

\* line starts with the tokens of prefix
StartsWith(line, prefix) == Len(line) >= Len(prefix) /\ SubSeq(line, 1, Len(prefix)) = prefix

\* C23: formatBibliographyEntry starts the line with the entry's index, as
\* "[index]" or "index.", for every numeric-class style (ieee, numeric,
\* vancouver, acs) and puts no index in the line for every author-year style
\* (apa, mla, harvard).
C23_BibLineIndex ==
    bibcc =>
        \A i \in 1..Len(bib) :
            IF style \in {"ieee", "numeric", "vancouver", "acs"}
            THEN \/ StartsWith(bib[i], <<"[", ToString(i), "]">>)
                 \/ StartsWith(bib[i], <<ToString(i), ".">>)
            ELSE ~Contains(bib[i], ToString(i))

\* the part of a name field before its first comma or " and "
RECURSIVE BeforeSeparator(_)
BeforeSeparator(a) ==
    IF a = <<>> \/ Head(a) \in {",", " and "} THEN <<>> ELSE <<Head(a)>> \o BeforeSeparator(Tail(a))

\* the surname and the year that a label shows for entry e
SurnameOf(e) ==
    IF e.author # <<>> THEN SelectSeq(BeforeSeparator(e.author), LAMBDA x : x # " ")
    ELSE IF e.editor # <<>> THEN SelectSeq(BeforeSeparator(e.editor), LAMBDA x : x # " ")
    ELSE <<"Anon">>

YearOf(e) == IF e.year = "" THEN "n.d." ELSE e.year

\* the style strings of the numeric class
NumericInputs == {"ieee", "numeric", "vancouver", "acs", "IEEE", "Acs"}

\* C24: formatInText returns "[index]" for every numeric-class style (ieee,
\* numeric, vancouver, acs) whatever the entry, and "(Surname, Year)" for every
\* other style, where Surname is the part of the author field (the editor field
\* when author is absent) before the first comma or " and ", "Anon" when both
\* fields are absent, and Year is "n.d." when the year field is absent.
C24_InTextLabel ==
    ev.kind = "formatted" =>
        \A i \in 1..Len(doc) :
            LET e == Entry(doc[i].ids[1])
                index == IndexOf(order, doc[i].ids[1]) + 1
            IN doc[i].text = (IF style \in NumericInputs THEN <<"[", ToString(index), "]">>
                              ELSE <<"(">> \o SurnameOf(e) \o <<", ", YearOf(e), ")">>)

\* under an author-year style the labels of an entry whose author field has
\* " and " before its first comma, of one with neither author nor editor and of
\* one with no year have been written
C24_Witness ==
    /\ ev.kind = "formatted"
    /\ style = "mla"
    /\ [i \in 1..Len(doc) |-> doc[i].ids[1]] = <<"E", "D", "B">>
    /\ doc[1].text = <<"(", "Lund", ", ", "2005", ")">>
    /\ doc[2].text = <<"(", "Anon", ", ", "2010", ")">>
    /\ doc[3].text = <<"(", "Abe", ", ", "n.d.", ")">>

\* C25: when the host rejects inserting a citation marker at the selection, the
\* insert operation tries, in this order, the marker at the end of the document
\* and then the label as plain text without a marker; only when all of these
\* fail does it surface the failure to the caller.
C25_InsertFallbackChain ==
    /\ ev.kind = "inserted" => ev.tried \in {<<"selection">>, <<"selection", "end">>}
    /\ ev.kind = "insertFailed" => (ev.tried = <<"selection", "end", "text">> /\ ~ev.textOk)

\* C26: during a refresh, a host failure while rewriting the text of one marker
\* does not prevent the remaining markers from being rewritten: every other
\* single and group marker still receives its recomputed text.
C26_OtherMarkersRewritten ==
    (ev.kind = "rewriteFailed" /\ ev.clean) =>
        \A i \in (1..Len(doc)) \ {ev.at} : doc[i].text = RefreshAll(doc, bib, style, lib).doc[i].text

\* the places G of items are a maximal run of two or more single markers with
\* nothing between them
IsMaximalRun(items, G) ==
    /\ Cardinality(G) >= 2
    /\ \E lo, hi \in 1..Len(items) :
          /\ G = lo..hi
          /\ \A i \in lo..hi : items[i].kind = "cite"
          /\ lo > 1 => items[lo - 1].kind # "cite"
          /\ hi < Len(items) => items[hi + 1].kind # "cite"

\* C27: the adjacent-merge pass merges, in each paragraph independently, only
\* maximal runs of two or more single markers with no non-citation content
\* between them: single markers of one paragraph that are separated by other
\* content, and single markers of different paragraphs, are never merged together.
C27_OnlyAdjacentRunsMerged ==
    scanOut.done => \A G \in scanOut.pane \cup scanOut.cite : IsMaximalRun(scanIn, G)

\* a paragraph text that, letter case aside, equals "references" or has
\* "bibliography" in it
IsHeadingText(text) ==
    \/ SelectSeq(text, LAMBDA x : x # " ") \in {<<"References">>, <<"REFERENCES">>, <<"references">>}
    \/ \E i \in 1..Len(text) : text[i] \in {"Bibliography", "bibliography", "BIBLIOGRAPHY"}

\* C28: before writing the bibliography, refresh uses as the bibliography
\* heading an existing paragraph whose text case-insensitively equals
\* "references" or matches "bibliography", and creates a new heading only when
\* the document has no such paragraph.
C28_HeadingReused ==
    scanOut.done =>
        IF \E i \in 1..Len(scanIn) : IsHeadingText(scanIn[i])
        THEN scanOut.paras = scanIn /\ scanOut.at \in 1..Len(scanIn) /\ IsHeadingText(scanIn[scanOut.at])
        ELSE Len(scanOut.paras) > Len(scanIn) /\ scanOut.at = Len(scanIn) + 1
                /\ IsHeadingText(scanOut.paras[scanOut.at])

\* C29: when the comparator reports two markers as occupying the same position
\* (any answer other than "before"), the scan orders them by discovery order:
\* the marker discovered earlier comes first in the result, for any number of
\* tied markers and any discovery order of the others.
C29_TiesKeepDiscoveryOrder ==
    scanOut.done =>
        \A j, k \in 1..Len(scanOut.sorted) :
            (/\ scanOut.sorted[j].pos = scanOut.sorted[k].pos
             /\ scanOut.sorted[j].n < scanOut.sorted[k].n) => j < k

\* two markers at one position have been scanned, with a marker of an earlier
\* position discovered between them: it comes first, the tied ones follow in
\* discovery order
C29_Witness ==
    /\ scanOut.done
    /\ Len(scanIn) = 3
    /\ \A n \in 1..3 : Scannable(n)
    /\ scanIn[1].pos = 2 /\ scanIn[2].pos = 1 /\ scanIn[3].pos = 2
    /\ [k \in 1..Len(scanOut.sorted) |-> scanOut.sorted[k].n] = <<2, 1, 3>>

\* the markers of the scanned document by position, those of one position in
\* discovery order
MarkersInOrder ==
    LET S == {n \in 1..Len(scanIn) : Scannable(n)}
        earlier(m, n) == scanIn[m].pos < scanIn[n].pos \/ (scanIn[m].pos = scanIn[n].pos /\ m < n)
        rank(n) == Cardinality({m \in S : earlier(m, n)}) + 1
    IN [k \in 1..Cardinality(S) |-> scanIn[CHOOSE n \in S : rank(n) = k]]

\* C30: the identifier sequence returned by the scan is the concatenation, in
\* marker position order, of each marker's identifier list: a group marker
\* contributes all identifiers of its tag in the tag's internal order
\* (duplicates kept) at its one position, so the first-appearance numbering of a
\* group [C,A] placed before a single B is C, A, B.
C30_GroupsExpandInPlace ==
    scanOut.done =>
        /\ scanOut.out = Flatten([k \in 1..Len(MarkersInOrder) |-> MarkersInOrder[k].ids])
        /\ \A i \in 1..Len(scanOut.uniq) :
              scanOut.uniq[i] = scanOut.out[CHOOSE p \in FirstPlaces(scanOut.out) :
                                               Cardinality({q \in FirstPlaces(scanOut.out) : q < p}) = i - 1]

\* a group [C,A], discovered last, stands before a single B and a group [A,A]:
\* the scan returns C, A, B, A, A and the numbering is C, A, B
C30_Witness ==
    /\ scanOut.done
    /\ Len(scanIn) = 3
    /\ scanIn[3].ids = <<"C", "A">> /\ scanIn[3].pos = 1
    /\ scanIn[1].ids = <<"B">> /\ scanIn[1].pos = 2
    /\ scanIn[2].ids = <<"A", "A">> /\ scanIn[2].pos = 3
    /\ \A n \in 1..3 : Scannable(n)
    /\ scanOut.out = <<"C", "A", "B", "A", "A">>
    /\ scanOut.uniq = <<"C", "A", "B">>

\* C31: after a refresh under a numeric-class style, the index at the start of
\* an entry's bibliography line is the number that the single markers of that
\* entry display, for every cited entry, also when CitedOrder holds identifiers
\* that have no Library entry.
C31_BibIndexMatchesLabel ==
    (ev.kind = "refreshDone" /\ ev.clean /\ isNumericStyle(style)) =>
        \A i \in 1..Len(bib), m \in 1..Len(doc) :
            (doc[m].kind = "cite" /\ doc[m].ids[1] \in lib /\ LineIsOf(bib[i], doc[m].ids[1])) =>
                StartsWith(bib[i], doc[m].text)

\* C32: when every operation started by an interleaving of Cite, Update
\* bibliography, merge, unmerge, reset numbering and style change has finished,
\* under a numeric-class style no two distinct identifiers are displayed with
\* the same number by single markers and all single markers of one identifier
\* display the same number.  Checked for the runs in which the user has not
\* edited the document at all and every identifier has its Library entry.
C32_NumbersTellEntriesApart ==
    (AllIdle /\ ~styleTimer /\ edits = MaxEdits /\ lib = Ids /\ isNumericStyle(style)) =>
        \A i, j \in 1..Len(doc) :
            (doc[i].kind = "cite" /\ doc[j].kind = "cite") =>
                ((doc[i].text = doc[j].text) <=> (doc[i].ids = doc[j].ids))

\* two Cite handlers, the only handlers started so far, have each ended the
\* markCited of ensureCitedIndex, for distinct identifiers
BothMarked ==
    /\ ops + 2 = MaxConcOps
    /\ \A t \in Tasks : tasks[t].op = "cite" /\ tasks[t].pc = "e4"
    /\ tasks["t1"].id # tasks["t2"].id

\* C33: ensureCitedIndex(id) returns the 1-based position of id in CitedOrder, a
\* value of 1 or more, and id is in CitedOrder when it returns, also when a
\* markCited for another identifier, a reset or a refresh runs between its
\* awaits; two interleaved markCited calls for distinct identifiers leave both
\* identifiers in CitedOrder.
C33_EnsureCitedIndex ==
    /\ ev.kind = "ensured" =>
          /\ ev.ret >= 1
          /\ Contains(order, ev.id)
          /\ ev.ret = IndexOf(order, ev.id) + 1
    /\ BothMarked => \A t \in Tasks : Contains(order, tasks[t].id)

\* how many single markers of paragraph p carry identifier id in their tag
TagsInPara(items, p, id) ==
    Cardinality({i \in 1..Len(items) : items[i].kind = "cite" /\ items[i].id = id /\ ParaOf(items, i) = p})

\* C34: the adjacent-merge pass loses no citation: for every paragraph, the
\* multiset of the identifiers carried by the tags of its markers is the same
\* before and after the pass, so the scan of a refresh that follows still finds
\* every merged entry.
C34_MergePassKeepsIds ==
    scanOut.done =>
        \A after \in {scanOut.paneAfter, scanOut.citeAfter} :
            \A p \in 0..Len(scanIn), id \in Ids :
                TagsInPara(after, p, id) = TagsInPara(scanIn, p, id)

\* C35: when Clear Library has been confirmed and has completed, with nothing
\* else writing meanwhile, the document holds no single and no group marker, the
\* Library and CitedOrder are empty and the bibliography block is empty; when the
\* confirmation is declined, the document, the Library and CitedOrder are as
\* they were.
C35_ClearLeavesNothing ==
    /\ []((ev.kind = "cleared" /\ ev.clean) =>
            /\ \A i \in 1..Len(doc) : doc[i].kind \notin {"cite", "group"}
            /\ lib = {} /\ order = <<>>
            /\ bibcc /\ bib = <<>>)
    /\ [][ev'.kind = "declined" => UNCHANGED <<doc, lib, order>>]_vars

\* the fields of the first pasted entry with identifier id
FirstPasted(entries, id) ==
    entries[CHOOSE k \in 1..Len(entries) : entries[k].id = id /\ \A j \in 1..(k - 1) : entries[j].id # id].v

\* C36: Add, Add-and-cite and the import of pasted BibTeX leave an entry whose
\* identifier already exists in the Library as it is: an entry that was in the
\* Library before keeps its fields, an entry that the paste has stored is not
\* overwritten by a later entry of the paste with the same identifier, and
\* Add-and-cite inserts no marker for an identifier that existed (so CitedOrder
\* and the document stay as they are for it).
C36_ExistingEntryKept ==
    scanOut.done =>
        /\ \A res \in {scanOut.only, scanOut.cite.store, scanOut.import} :
              \A id \in Ids :
                 /\ scanOut.lib[id] # "" => res[id] = scanOut.lib[id]
                 /\ (scanOut.lib[id] = "" /\ \E k \in 1..Len(scanIn) : scanIn[k].id = id) =>
                       res[id] = FirstPasted(scanIn, id)
        /\ \A k \in 1..Len(scanOut.cite.cited) :
              /\ scanOut.lib[scanOut.cite.cited[k]] = ""
              /\ \A j \in 1..(k - 1) : scanOut.cite.cited[j] # scanOut.cite.cited[k]

\* the items of that kind in the body of the document
OfKind(kind) == {i \in 1..Len(scanIn) : scanIn[i].kind = kind}

\* the lines of all bibliography blocks of the document, in reading order
AllBibLines ==
    Flatten([i \in 1..Len(scanIn) |-> IF scanIn[i].kind = "block" THEN scanIn[i].lines ELSE <<>>])

\* C37: after any number of refreshes, overlapping ones included, the document
\* has exactly one bibliography block and at most one heading made by the
\* engine, and the bibliography is what the last refresh wrote: no entry has two
\* lines and no line of an earlier refresh is left.
C37_OneBlockWrittenWhole ==
    ev.kind = "bibWritten" =>
        /\ Cardinality(OfKind("block")) = 1
        /\ Cardinality(OfKind("heading")) <= 1
        /\ AllBibLines = ev.lines
        /\ \A id \in Ids : Cardinality(LinesOf(AllBibLines, id)) <= 1

\* C10: a handler whose merge found fewer than two eligible single markers, or
\* whose unmerge found no group marker, writes no marker, no bibliography content
\* and no heading in any of its steps.
C10_NoopWritesNothing ==
    [][\A t \in Tasks : (tasks[t].noop /\ tasks'[t].pc # tasks[t].pc) =>
          UNCHANGED <<doc, bib, heading, bibcc>>]_vars

====
